---- MODULE Spec2Model ----
(***************************************************************************)
(* Model of the extraction core of XML_Parser_401k                         *)
(* (src/services/xmlExtractionService.ts): the Flag Extractor, the         *)
(* Candidate Resolver, the Options Matcher, the Vesting Schedule Resolver  *)
(* and the two orchestrators fillDataFromXmls / fillDataFromXmlsEnhanced.  *)
(*                                                                         *)
(* Strings are TLA+ strings; JavaScript's string methods are modelled by   *)
(* operators that compute on the characters (Len, SubSeq, \o).             *)
(* A value of type `string | null` is a sequence of length 0 (null) or 1.  *)
(***************************************************************************)
EXTENDS Integers, Sequences, FiniteSets, TLC

(***************************************************************************)
(* Bounds of the model.                                                    *)
(***************************************************************************)
MaxDocs == 2
MaxPrompts == 2
\* the largest value of a selected attribute
MaxSelected == 2
\* the most lines of an allowed-options text, the most selected linknames
MaxOptions == 3
MaxSelNames == 2
\* Elements of a document handed to the Flag Extractor
MaxNodes == 3
\* Rows of a prompt map
MaxRows == 3
\* Requests of loadLocal in flight at a time
MaxLoads == 2

----------------------------------------------------------------------------
(***************************************************************************)
(* JavaScript string primitives.                                           *)
(***************************************************************************)
None == <<>>
Some(v) == <<v>>

CharAt(s, i) == SubSeq(s, i, i)
Drop(s, n) == SubSeq(s, n + 1, Len(s))
Take(s, n) == SubSeq(s, 1, n)

SetMin(S) == CHOOSE m \in S : \A k \in S : m <= k
SetMax(S) == CHOOSE m \in S : \A k \in S : m >= k

UpperChars == "ABCDEFGHIJKLMNOPQRSTUVWXYZ"
LowerChars == "abcdefghijklmnopqrstuvwxyz"
DigitChars == "0123456789"

CharsOf(alphabet) == {CharAt(alphabet, i) : i \in 1..Len(alphabet)}
UpperSet == CharsOf(UpperChars)
DigitSet == CharsOf(DigitChars)
\* \w of a JavaScript regular expression: [A-Za-z0-9_]
WordSet == UpperSet \cup CharsOf(LowerChars) \cup DigitSet \cup {"_"}
\* \s of a JavaScript regular expression, and what String.prototype.trim removes
SpaceSet == {" ", "\t", "\n", "\r", "\f"}

IsDigit(c) == c \in DigitSet
IsWordChar(c) == c \in WordSet
IsSpace(c) == c \in SpaceSet

LowerOf == [c \in UpperSet |->
              CharAt(LowerChars, CHOOSE i \in 1..Len(UpperChars) : CharAt(UpperChars, i) = c)]
DigitOf == [c \in DigitSet |-> (CHOOSE i \in 1..Len(DigitChars) : CharAt(DigitChars, i) = c) - 1]

LowerChar(c) == IF c \in UpperSet THEN LowerOf[c] ELSE c

RECURSIVE ToLowerCase(_)
ToLowerCase(s) ==
  IF s = "" THEN "" ELSE LowerChar(CharAt(s, 1)) \o ToLowerCase(Drop(s, 1))

Trim(s) ==
  LET keep == {i \in 1..Len(s) : ~IsSpace(CharAt(s, i))}
  IN  IF keep = {} THEN "" ELSE SubSeq(s, SetMin(keep), SetMax(keep))

StartsWith(s, pre) == Len(pre) <= Len(s) /\ Take(s, Len(pre)) = pre
EndsWith(s, suf) == Len(suf) <= Len(s) /\ Drop(s, Len(s) - Len(suf)) = suf
Includes(s, sub) == \E i \in 0..(Len(s) - Len(sub)) : SubSeq(s, i + 1, i + Len(sub)) = sub

\* s.split(sep) for a one-character separator: never empty, keeps empty pieces
RECURSIVE Split(_, _)
Split(s, sep) ==
  LET hits == {i \in 1..Len(s) : CharAt(s, i) = sep}
  IN  IF hits = {} THEN <<s>>
      ELSE <<Take(s, SetMin(hits) - 1)>> \o Split(Drop(s, SetMin(hits)), sep)

\* s.replace(/\s+/g, '')
RECURSIVE StripSpaces(_)
StripSpaces(s) ==
  IF s = "" THEN ""
  ELSE (IF IsSpace(CharAt(s, 1)) THEN "" ELSE CharAt(s, 1)) \o StripSpaces(Drop(s, 1))

\* s.replace(/\s+/g, ' ')
RECURSIVE CollapseSpaces(_)
CollapseSpaces(s) ==
  IF s = "" THEN ""
  ELSE IF IsSpace(CharAt(s, 1))
       THEN LET rest == {i \in 1..Len(s) : ~IsSpace(CharAt(s, i))}
            IN  " " \o (IF rest = {} THEN "" ELSE CollapseSpaces(Drop(s, SetMin(rest) - 1)))
       ELSE CharAt(s, 1) \o CollapseSpaces(Drop(s, 1))

\* s.replace(/^"|"$/g, ''): one leading and one trailing double quote
StripQuotes(s) ==
  LET a == IF StartsWith(s, "\"") THEN Drop(s, 1) ELSE s
  IN  IF EndsWith(a, "\"") THEN Take(a, Len(a) - 1) ELSE a

\* s.replace(/\\n/g, '\n'): a backslash followed by n becomes a line break
RECURSIVE UnescapeNewlines(_)
UnescapeNewlines(s) ==
  IF s = "" THEN ""
  ELSE IF StartsWith(s, "\\n") THEN "\n" \o UnescapeNewlines(Drop(s, 2))
       ELSE CharAt(s, 1) \o UnescapeNewlines(Drop(s, 1))

\* s.match(/\d+/g) || []: the maximal runs of digits, in order
RECURSIVE DigitRuns(_)
DigitRuns(s) ==
  LET digs == {i \in 1..Len(s) : IsDigit(CharAt(s, i))}
  IN  IF digs = {} THEN <<>>
      ELSE LET from == SetMin(digs)
               stop == SetMin({i \in from..(Len(s) + 1) : i = Len(s) + 1 \/ ~IsDigit(CharAt(s, i))})
           IN  <<SubSeq(s, from, stop - 1)>> \o DigitRuns(Drop(s, stop - 1))

\* parseInt(s, 10) || 0: leading white space, a sign, the leading digits; NaN gives 0
RECURSIVE DigitsValue(_)
DigitsValue(s) ==
  IF s = "" THEN 0
  ELSE 10 * DigitsValue(Take(s, Len(s) - 1))
       + DigitOf[CharAt(s, Len(s))]

ParseIntOrZero(s) ==
  LET t    == LET keep == {i \in 1..Len(s) : ~IsSpace(CharAt(s, i))}
              IN  IF keep = {} THEN "" ELSE Drop(s, SetMin(keep) - 1)
      neg  == StartsWith(t, "-")
      u    == IF neg \/ StartsWith(t, "+") THEN Drop(t, 1) ELSE t
      stop == SetMin({i \in 1..(Len(u) + 1) : i = Len(u) + 1 \/ ~IsDigit(CharAt(u, i))})
      v    == DigitsValue(Take(u, stop - 1))
  IN  IF neg THEN 0 - v ELSE v

\* xs.map(f).filter(Boolean) for strings: the non-empty ones
NonEmpty(xs) == SelectSeq(xs, LAMBDA x : x # "")

Range(xs) == {xs[i] : i \in 1..Len(xs)}

MapSeq(xs, F(_)) == [i \in 1..Len(xs) |-> F(xs[i])]

----------------------------------------------------------------------------
(***************************************************************************)
(* Data.                                                                   *)
(*   element : [tag, name, selected, insert, text], one element of the     *)
(*             parsed document; name is the value / FieldName attribute,   *)
(*             an absent attribute is "" (the code reads every attribute   *)
(*             as `getAttribute(..) || ''`, or `|| '0'`).                  *)
(*   LinkFlag: [selected, insert, text]; text "" stands for undefined      *)
(*             (the extractor stores `trimmed || undefined`).              *)
(*   flags   : a function from the registered linknames to LinkFlags;      *)
(*             flags[name] is undefined iff name is not in its domain.     *)
(*   Prompt  : [key, prompt, linknames, quick]; an absent optional field   *)
(*             is "" (the code reads them as `p.linknames || ..`).         *)
(***************************************************************************)
HasFlag(flags, name) == name \in DOMAIN flags

PutFlag(flags, name, lf) ==
  [n \in DOMAIN flags \cup {name} |-> IF n = name THEN lf ELSE flags[n]]

\* lf && lf.selected === 1
IsSelected(flags, name) == HasFlag(flags, name) /\ flags[name].selected = 1

\* lf && lf.text && lf.text.trim()
HasText(flags, name) ==
  HasFlag(flags, name) /\ flags[name].text # "" /\ Trim(flags[name].text) # ""

----------------------------------------------------------------------------
(***************************************************************************)
(* Flag Extractor: parseXmlToFlags.                                        *)
(***************************************************************************)
ElementsByTagName(nodes, tag) == SelectSeq(nodes, LAMBDA el : el.tag = tag)

\* One iteration of the loop over the <LinkName> elements
LinkNameStep(flags, el) ==
  LET name == Trim(el.name)
  IN  IF name = "" THEN flags
      ELSE PutFlag(flags, name,
                   [selected |-> ParseIntOrZero(IF el.selected = "" THEN "0" ELSE el.selected),
                    insert   |-> ParseIntOrZero(IF el.insert = "" THEN "0" ELSE el.insert),
                    text     |-> Trim(el.text)])

\* Faulty variant: a PlanData element registers its Flag whether or not one exists
PlanDataStepOverwrites(flags, el) ==
  LET name == Trim(el.name)
  IN  IF name = "" THEN flags
      ELSE PutFlag(flags, name, [selected |-> 1, insert |-> 0, text |-> Trim(el.text)])

\* One iteration of the loop over the <PlanData> elements
PlanDataStep(flags, el) ==
  LET name == Trim(el.name)
      text == Trim(el.text)
  IN  IF name = "" THEN flags
      ELSE IF ~HasFlag(flags, name)
           THEN PutFlag(flags, name, [selected |-> 1, insert |-> 0, text |-> text])
           ELSE IF text # "" /\ flags[name].text = ""
                THEN PutFlag(flags, name, [flags[name] EXCEPT !.text = text])
                ELSE flags

RECURSIVE FoldNodes(_, _, _)
FoldNodes(Step(_, _), flags, els) ==
  IF els = <<>> THEN flags ELSE FoldNodes(Step, Step(flags, Head(els)), Tail(els))

parseXmlToFlags(nodes) ==
  LET linked == FoldNodes(LinkNameStep, <<>>, ElementsByTagName(nodes, "LinkName"))
  IN  FoldNodes(PlanDataStep, linked, ElementsByTagName(nodes, "PlanData"))

----------------------------------------------------------------------------
(***************************************************************************)
(* Yes/No Classifier, Related-Text Resolver, Candidate Resolver.           *)
(***************************************************************************)
YesNoAuxiliaries == <<"is", "does", "will", "are", "has", "have">>

\* /\?$/.test(p) && /^(is|does|will|are|has|have)\b/.test(p)
looksYesNoPrompt(promptText) ==
  LET p == ToLowerCase(Trim(promptText))
  IN  /\ EndsWith(p, "?")
      /\ \E i \in 1..Len(YesNoAuxiliaries) :
           LET w == YesNoAuxiliaries[i]
           IN  StartsWith(p, w) /\ (Len(p) = Len(w) \/ ~IsWordChar(CharAt(p, Len(w) + 1)))

RelatedSuffixes == <<"Age", "Amt", "Amount", "Perc", "Percent", "Dollar", "Dollars">>

\* Faulty variant: the suffix tokens are tried before the name without "Main"
relatedTextSuffixFirst(name, flags) ==
  LET hits == {i \in 1..Len(RelatedSuffixes) : HasText(flags, name \o RelatedSuffixes[i])}
  IN  IF HasText(flags, name) THEN Some(flags[name].text)
      ELSE IF hits # {} THEN Some(flags[name \o RelatedSuffixes[SetMin(hits)]].text)
           ELSE IF EndsWith(name, "Main") /\ HasText(flags, Take(name, Len(name) - 4))
                THEN Some(flags[Take(name, Len(name) - 4)].text)
                ELSE None

relatedText(name, flags) ==
  IF HasText(flags, name) THEN Some(flags[name].text)
  ELSE IF EndsWith(name, "Main") /\ HasText(flags, Take(name, Len(name) - 4))
       THEN Some(flags[Take(name, Len(name) - 4)].text)
       ELSE LET hits == {i \in 1..Len(RelatedSuffixes) : HasText(flags, name \o RelatedSuffixes[i])}
            IN  IF hits = {} THEN None
                ELSE Some(flags[name \o RelatedSuffixes[SetMin(hits)]].text)

cleanName(n) == Trim(StripQuotes(n))

\* (linkcsv || '').split(',').map(s => cleanName(s)).filter(Boolean)
CandidateNames(linkcsv) == NonEmpty(MapSeq(Split(linkcsv, ","), cleanName))

\* Faulty variant: the scan lacks its break, so the last selected candidate is chosen
RECURSIVE FirstSelectedNoBreak(_, _)
FirstSelectedNoBreak(names, flags) ==
  IF names = <<>> THEN None
  ELSE IF FirstSelectedNoBreak(Tail(names), flags) # None
       THEN FirstSelectedNoBreak(Tail(names), flags)
       ELSE IF IsSelected(flags, Head(names)) THEN Some(Head(names)) ELSE None

\* for (const nm of names) { if (lf && lf.selected === 1) { chosen = nm; break; } }
RECURSIVE FirstSelected(_, _)
FirstSelected(names, flags) ==
  IF names = <<>> THEN None
  ELSE IF IsSelected(flags, Head(names)) THEN Some(Head(names))
       ELSE FirstSelected(Tail(names), flags)

\* Faulty variant: the test that the flag exists is missing
ChooseSingleNoFlagTest(nm, promptText, flags) ==
  IF looksYesNoPrompt(promptText)
  THEN Some(IF IsSelected(flags, nm) THEN "Yes" ELSE "No")
  ELSE IF relatedText(nm, flags) # None THEN relatedText(nm, flags)
       ELSE IF StartsWith(ToLowerCase(nm), "yes")
            THEN Some(IF IsSelected(flags, nm) THEN "Yes" ELSE "No")
            ELSE IF StartsWith(ToLowerCase(nm), "no")
                 THEN Some(IF IsSelected(flags, nm) THEN "No" ELSE "Yes")
                 ELSE None

\* Faulty variant: the linkname's polarity is consulted before the related text
ChooseSinglePolarityFirst(nm, promptText, flags) ==
  IF ~HasFlag(flags, nm) THEN None
  ELSE IF looksYesNoPrompt(promptText)
       THEN Some(IF flags[nm].selected = 1 THEN "Yes" ELSE "No")
       ELSE IF StartsWith(ToLowerCase(nm), "yes")
            THEN Some(IF flags[nm].selected = 1 THEN "Yes" ELSE "No")
            ELSE IF StartsWith(ToLowerCase(nm), "no")
                 THEN Some(IF flags[nm].selected = 1 THEN "No" ELSE "Yes")
                 ELSE relatedText(nm, flags)

\* Faulty variant: the Yes/No test comes before the test that the flag exists
ChooseSingleYesNoFirst(nm, promptText, flags) ==
  IF looksYesNoPrompt(promptText)
  THEN Some(IF IsSelected(flags, nm) THEN "Yes" ELSE "No")
  ELSE IF ~HasFlag(flags, nm) THEN None
       ELSE IF relatedText(nm, flags) # None THEN relatedText(nm, flags)
            ELSE IF StartsWith(ToLowerCase(nm), "yes")
                 THEN Some(IF flags[nm].selected = 1 THEN "Yes" ELSE "No")
                 ELSE IF StartsWith(ToLowerCase(nm), "no")
                      THEN Some(IF flags[nm].selected = 1 THEN "No" ELSE "Yes")
                      ELSE None

\* The single-name fast path
ChooseSingle(nm, promptText, flags) ==
  IF ~HasFlag(flags, nm) THEN None
  ELSE IF looksYesNoPrompt(promptText)
       THEN Some(IF flags[nm].selected = 1 THEN "Yes" ELSE "No")
       ELSE IF relatedText(nm, flags) # None THEN relatedText(nm, flags)
            ELSE IF StartsWith(ToLowerCase(nm), "yes")
                 THEN Some(IF flags[nm].selected = 1 THEN "Yes" ELSE "No")
                 ELSE IF StartsWith(ToLowerCase(nm), "no")
                      THEN Some(IF flags[nm].selected = 1 THEN "No" ELSE "Yes")
                      ELSE None

\* Faulty variant: for a Yes/No prompt a chosen name without "yes" is taken as "No"
ChooseMultiDefaultsToNo(names, promptText, flags) ==
  LET chosen == FirstSelected(names, flags)
  IN  IF chosen = None THEN None
      ELSE IF looksYesNoPrompt(promptText)
           THEN IF Includes(ToLowerCase(chosen[1]), "yes") THEN Some("Yes") ELSE Some("No")
           ELSE relatedText(chosen[1], flags)

\* Faulty variant: without related text the chosen linkname itself is returned
ChooseMultiLeaksName(names, promptText, flags) ==
  LET chosen == FirstSelected(names, flags)
  IN  IF chosen = None THEN None
      ELSE IF looksYesNoPrompt(promptText)
           THEN IF Includes(ToLowerCase(chosen[1]), "yes") THEN Some("Yes")
                ELSE IF Includes(ToLowerCase(chosen[1]), "no") THEN Some("No")
                     ELSE Some("Yes")
           ELSE IF relatedText(chosen[1], flags) # None THEN relatedText(chosen[1], flags)
                ELSE chosen

\* The multi-name path: pick the selected one
ChooseMulti(names, promptText, flags) ==
  LET chosen == FirstSelected(names, flags)
  IN  IF chosen = None THEN None
      ELSE IF looksYesNoPrompt(promptText)
           THEN IF Includes(ToLowerCase(chosen[1]), "yes") THEN Some("Yes")
                ELSE IF Includes(ToLowerCase(chosen[1]), "no") THEN Some("No")
                     ELSE Some("Yes")
           ELSE relatedText(chosen[1], flags)

chooseValueForLinkcsv(linkcsv, promptText, flags) ==
  LET names == CandidateNames(linkcsv)
  IN  IF Len(names) = 0 THEN None
      ELSE IF Len(names) = 1 THEN ChooseSingle(names[1], promptText, flags)
           ELSE ChooseMulti(names, promptText, flags)

\* Faulty variant: the label keeps the double quotes around it
deriveLabelFromQuickKeepsQuotes(quick) ==
  LET q == Trim(quick)
  IN  IF q = "" \/ ~Includes(q, ",") THEN None
      ELSE LET parts == Split(q, ",")
               label == Trim(parts[Len(parts)])
           IN  IF label = "" THEN None ELSE Some(label)

deriveLabelFromQuick(quick) ==
  IF quick = "" THEN None
  ELSE LET q == Trim(quick)
       IN  IF q = "" THEN None
           ELSE IF Includes(q, ",")
                THEN LET parts == Split(q, ",")
                         label == StripQuotes(Trim(parts[Len(parts)]))
                     IN  IF label = "" THEN None ELSE Some(label)
                ELSE None

----------------------------------------------------------------------------
(***************************************************************************)
(* Options Matcher.                                                        *)
(***************************************************************************)
linknameKeywords(name) ==
  LET n == ToLowerCase(name)
  IN  (IF Includes(n, "match") THEN {"match"} ELSE {})
      \cup (IF Includes(n, "profit") \/ Includes(n, "non elective") \/ Includes(n, "nonelective")
            THEN {"profit"} ELSE {})
      \cup (IF Includes(n, "immediate") \/ Includes(n, "vest100") THEN {"immediate"} ELSE {})
      \cup (IF Includes(n, "percent") \/ Includes(n, "perc") THEN {"percent"} ELSE {})
      \cup (IF Includes(n, "dollar") THEN {"dollar"} ELSE {})
      \cup Range(DigitRuns(n))

\* t.split(/\n+/).map(s => s.trim()).filter(Boolean): splitting at every line
\* break leaves empty pieces where /\n+/ leaves none, and filter drops them
normalizeOptionsAllowed(txt) ==
  NonEmpty(MapSeq(Split(UnescapeNewlines(txt), "\n"), Trim))

\* selKw.forEach(k => { if (low.includes(k)) score++; })
OptionScore(selKw, opt) ==
  Cardinality({k \in selKw : Includes(ToLowerCase(opt), k)})

\* Faulty variant: score >= bestScore, so a later option of equal score replaces the best
BestMatchStepLastWins(acc, selKw, opt) ==
  IF OptionScore(selKw, opt) >= acc[2] THEN <<Some(opt), OptionScore(selKw, opt)>> ELSE acc

\* One iteration of the loop over the options; acc is <<best, bestScore>>
BestMatchStep(acc, selKw, opt) ==
  IF OptionScore(selKw, opt) > acc[2] THEN <<Some(opt), OptionScore(selKw, opt)>> ELSE acc

RECURSIVE BestMatchLoop(_, _, _)
BestMatchLoop(acc, selKw, options) ==
  IF options = <<>> THEN acc
  ELSE BestMatchLoop(BestMatchStep(acc, selKw, Head(options)), selKw, Tail(options))

bestMatchFromOptions(selectedNames, optionsAllowed) ==
  IF Len(selectedNames) = 0 \/ optionsAllowed = "" THEN None
  ELSE LET selKw == UNION {linknameKeywords(selectedNames[i]) : i \in 1..Len(selectedNames)}
       IN  BestMatchLoop(<<None, 0>>, selKw, normalizeOptionsAllowed(optionsAllowed))[1]

----------------------------------------------------------------------------
(***************************************************************************)
(* Vesting Schedule Resolver.                                              *)
(***************************************************************************)
isVestingSchedulePrompt(promptText) ==
  LET p == ToLowerCase(Trim(promptText))
  IN  Includes(p, "vesting schedule") /\ ~Includes(p, "describe")

gradedMap ==
  << <<"Vest6YRGradeMatch", "2-20">>, <<"Vest5YRGradeMatch", "1-20">>,
     <<"Vest4YRGradeMatch", "1-25">>, <<"6YRGradedNEContr", "2-20">>,
     <<"5YRGradedNEContr", "1-20">>, <<"4YRGradedNEContr", "1-25">> >>

cliffMap ==
  << <<"Vest3YRClifMatch", "Cliff 3">>, <<"3YRCliffNEContr", "Cliff 3">>,
     <<"2YRCliffNEContr", "Cliff 2">> >>

\* for (const [nm, label] of table) { if (lf && lf.selected === 1) return label; }
FirstSelectedLabel(table, flags) ==
  LET hits == {i \in 1..Len(table) : IsSelected(flags, table[i][1])}
  IN  IF hits = {} THEN None ELSE Some(table[SetMin(hits)][2])

ImmediateTable(names) == [i \in 1..Len(names) |-> <<names[i], "Immediate">>]

\* Faulty variant: the cliff table is consulted before the graded table
deriveVestingShortLabelCliffFirst(flags, quickText) ==
  LET graded == FirstSelectedLabel(gradedMap, flags)
      cliff  == FirstSelectedLabel(cliffMap, flags)
      always == FirstSelectedLabel(
                  ImmediateTable(<<"VestNAQACA", "VestNAQACAMatch", "VestNAQACANE">>), flags)
  IN  IF cliff # None THEN cliff
      ELSE IF graded # None THEN graded
      ELSE always

\* Faulty variant: the immediate linknames count whatever the quick text says
deriveVestingShortLabelUngated(flags, quickText) ==
  LET graded == FirstSelectedLabel(gradedMap, flags)
      cliff  == FirstSelectedLabel(cliffMap, flags)
      any    == FirstSelectedLabel(
                  ImmediateTable(<<"NAVestMatch", "Vest100Match", "100VestingNEContr",
                                   "Vest100NEContr", "VestNAQACA", "VestNAQACAMatch",
                                   "VestNAQACANE">>), flags)
  IN  IF graded # None THEN graded
      ELSE IF cliff # None THEN cliff
      ELSE any

deriveVestingShortLabel(flags, quickText) ==
  LET qt      == ToLowerCase(quickText)
      isMatch == Includes(qt, "match")
      isNE    == Includes(qt, "non elective") \/ Includes(qt, "non-elective") \/ Includes(qt, "profit")
      graded  == FirstSelectedLabel(gradedMap, flags)
      cliff   == FirstSelectedLabel(cliffMap, flags)
      forMatch == FirstSelectedLabel(ImmediateTable(<<"NAVestMatch", "Vest100Match">>), flags)
      forNE    == FirstSelectedLabel(ImmediateTable(<<"100VestingNEContr", "Vest100NEContr">>), flags)
      always   == FirstSelectedLabel(
                    ImmediateTable(<<"VestNAQACA", "VestNAQACAMatch", "VestNAQACANE">>), flags)
  IN  IF graded # None THEN graded
      ELSE IF cliff # None THEN cliff
      ELSE IF isMatch /\ forMatch # None THEN forMatch
      ELSE IF isNE /\ forNE # None THEN forNE
      ELSE always

\* The fixed canonical verbose forms (the switch over the normalized label)
CanonicalVesting(s, shortLabel) ==
  CASE s = "1-25" -> "1-25 (0=0, 1=25, 2=50, 3=75, 4=100)"
    [] s = "1-20" -> "20/Yr (0=0, 1=20, 2=40, 3=60, 4=80, 5=100)"
    [] s = "2-20" -> "2-20 (0=0, 1=0, 2=20, 3=40, 4=60, 5=80, 6=100)"
    [] s \in {"cliff2", "cliff 2"} -> "Cliff 2 (0=0, 1=0, 2=100)"
    [] s \in {"cliff3", "cliff 3"} -> "Cliff 3 (0=0, 1=0, 2=0, 3=100)"
    [] s = "immediate" -> "Immediate (100% immediate vesting)"
    [] OTHER -> shortLabel

\* Faulty variant: the last matching line of the allowed options is returned
expandVestingLabelLastLine(shortLabel, optionsAllowed) ==
  IF shortLabel = "" THEN None
  ELSE LET lines == NonEmpty(MapSeq(Split(UnescapeNewlines(optionsAllowed), "\n"), Trim))
           s     == StripSpaces(ToLowerCase(Trim(shortLabel)))
           candidates == {s} \cup (IF s = "1-20" THEN {"20/yr"} ELSE {})
           hits  == {i \in 1..Len(lines) :
                       \E c \in candidates : StartsWith(StripSpaces(ToLowerCase(lines[i])), c)}
       IN  IF hits # {} THEN Some(lines[SetMax(hits)])
           ELSE Some(CanonicalVesting(s, shortLabel))

expandVestingLabel(shortLabel, optionsAllowed) ==
  IF shortLabel = "" THEN None
  ELSE LET lines == NonEmpty(MapSeq(Split(UnescapeNewlines(optionsAllowed), "\n"), Trim))
           s     == StripSpaces(ToLowerCase(Trim(shortLabel)))
           candidates ==
             {s} \cup (IF s = "cliff2" THEN {"cliff 2"} ELSE {})
                 \cup (IF s = "cliff3" THEN {"cliff 3"} ELSE {})
                 \cup (IF s = "1-20" THEN {"20/yr"} ELSE {})
           hits  == {i \in 1..Len(lines) :
                       \E c \in candidates : StartsWith(StripSpaces(ToLowerCase(lines[i])), c)}
       IN  IF hits # {} THEN Some(lines[SetMin(hits)])
           ELSE Some(CanonicalVesting(s, shortLabel))

----------------------------------------------------------------------------
(***************************************************************************)
(* The per-prompt resolution chains of the two orchestrators.              *)
(***************************************************************************)
\* obj[k] || '' on a plain object of strings
Lookup(obj, k) == IF k \in DOMAIN obj THEN obj[k] ELSE ""

Put(obj, k, v) == [n \in DOMAIN obj \cup {k} |-> IF n = k THEN v ELSE obj[n]]

\* The names of a set as a list. The code lists Object.entries(flags) in
\* insertion order; its only consumer, bestMatchFromOptions, reads the list's
\* length and the union of the names' keywords, so the order is immaterial.
RECURSIVE SetToSeq(_)
SetToSeq(S) ==
  IF S = {} THEN <<>> ELSE LET x == CHOOSE x \in S : TRUE IN <<x>> \o SetToSeq(S \ {x})

\* (p.linknames || p.key || '').trim()
LinkCsv(p) == Trim(IF p.linknames # "" THEN p.linknames ELSE p.key)

\* names.filter(n => flags[n] && flags[n].selected === 1)
SelectedCandidates(p, flags) ==
  SelectSeq(CandidateNames(LinkCsv(p)), LAMBDA n : IsSelected(flags, n))

\* Object.entries(flags).filter(([, f]) => f && f.selected === 1).map(([n]) => n)
AllSelected(flags) == SetToSeq({n \in DOMAIN flags : flags[n].selected = 1})

\* (s || '').trim().replace(/\s+/g, ' ').replace(/:$/, '')
norm(str) ==
  LET t == CollapseSpaces(Trim(str))
  IN  IF EndsWith(t, ":") THEN Take(t, Len(t) - 1) ELSE t

CandidateStage(p, flags) == chooseValueForLinkcsv(LinkCsv(p), p.prompt, flags)

\* The body of the vesting schedule special case of fillDataFromXmlsEnhanced
VestingStage(p, flags, obp) ==
  LET short == deriveVestingShortLabel(flags, p.quick)
  IN  IF short # None THEN expandVestingLabel(short[1], Lookup(obp, p.prompt)) ELSE None

\* Faulty variant: every miss on the candidates' keywords falls back to the
\* selected flags of the whole document
OptionsStageAlwaysFallsBack(p, flags, obp) ==
  LET selected == SelectedCandidates(p, flags)
      oa       == IF Lookup(obp, p.prompt) # "" THEN Lookup(obp, p.prompt)
                  ELSE Lookup(obp, norm(p.prompt))
      picked   == bestMatchFromOptions(selected, oa)
  IN  IF picked = None THEN bestMatchFromOptions(AllSelected(flags), oa) ELSE picked

\* The allowed-options lookup and the two calls of bestMatchFromOptions
OptionsStage(p, flags, obp) ==
  LET selected == SelectedCandidates(p, flags)
      oa       == IF Lookup(obp, p.prompt) # "" THEN Lookup(obp, p.prompt)
                  ELSE Lookup(obp, norm(p.prompt))
      picked   == bestMatchFromOptions(selected, oa)
  IN  IF picked = None /\ Len(selected) = 0
      THEN bestMatchFromOptions(AllSelected(flags), oa)
      ELSE picked

\* The quick-text fallback of fillDataFromXmlsEnhanced
QuickStageEnhanced(p, flags) ==
  IF Len(SelectedCandidates(p, flags)) > 0 \/ Len(AllSelected(flags)) > 0
  THEN deriveLabelFromQuick(p.quick)
  ELSE None

\* Faulty variant: the quick-text label is used whether or not any flag is selected
QuickStageBasicUnconditional(p, flags) ==
  IF p.quick # "" THEN deriveLabelFromQuick(p.quick) ELSE None

\* The quick-text fallback of fillDataFromXmls
QuickStageBasic(p, flags) ==
  IF p.quick # ""
  THEN LET names == CandidateNames(LinkCsv(p))
           anyMapped == \E i \in 1..Len(names) : IsSelected(flags, names[i])
           anySelected == anyMapped \/ \E n \in DOMAIN flags : flags[n].selected = 1
       IN  IF anySelected THEN deriveLabelFromQuick(p.quick) ELSE None
  ELSE None

OrNA(val) == IF val = None THEN "N/A" ELSE val[1]

\* Body of the prompt loop of fillDataFromXmls: the value stored under p.key
ResolveBasic(p, flags) ==
  LET val0 == CandidateStage(p, flags)
      val1 == IF val0 = None THEN QuickStageBasic(p, flags) ELSE val0
  IN  OrNA(val1)

\* Faulty variant: the Options Matcher runs before the vesting schedule special case
ResolveEnhancedOptionsFirst(p, flags, obp) ==
  LET val0 == CandidateStage(p, flags)
      val1 == IF val0 = None /\ OptionsStage(p, flags, obp) # None
              THEN OptionsStage(p, flags, obp) ELSE val0
      val2 == IF val1 = None /\ isVestingSchedulePrompt(p.prompt)
                 /\ VestingStage(p, flags, obp) # None
              THEN VestingStage(p, flags, obp) ELSE val1
      val3 == IF val2 = None /\ QuickStageEnhanced(p, flags) # None
              THEN QuickStageEnhanced(p, flags) ELSE val2
  IN  OrNA(val3)

\* Body of the prompt loop of fillDataFromXmlsEnhanced
ResolveEnhanced(p, flags, obp) ==
  LET val0 == CandidateStage(p, flags)
      val1 == IF val0 = None /\ isVestingSchedulePrompt(p.prompt)
                 /\ VestingStage(p, flags, obp) # None
              THEN VestingStage(p, flags, obp) ELSE val0
      val2 == IF val1 = None /\ OptionsStage(p, flags, obp) # None
              THEN OptionsStage(p, flags, obp) ELSE val1
      val3 == IF val2 = None /\ QuickStageEnhanced(p, flags) # None
              THEN QuickStageEnhanced(p, flags) ELSE val2
  IN  OrNA(val3)

\* Faulty variant: a miss stores nothing instead of the sentinel
RowStepDropsMisses(row, p, val) ==
  IF Trim(p.key) = "" \/ val = "N/A" THEN row ELSE Put(row, p.key, val)

\* if (!key) continue; ... row[p.key] = val ?? 'N/A'
RowStep(row, p, val) == IF Trim(p.key) = "" THEN row ELSE Put(row, p.key, val)

RECURSIVE FillRow(_, _, _, _, _)
FillRow(row, ps, flags, obp, enhanced) ==
  IF ps = <<>> THEN row
  ELSE FillRow(RowStep(row, Head(ps),
                       IF enhanced THEN ResolveEnhanced(Head(ps), flags, obp)
                       ELSE ResolveBasic(Head(ps), flags)),
               Tail(ps), flags, obp, enhanced)

\* Faulty variant: the catch block skips blank keys as the try block does
RECURSIVE ErrorRowSkipsBlankKeys(_, _)
ErrorRowSkipsBlankKeys(row, ps) ==
  IF ps = <<>> THEN row
  ELSE ErrorRowSkipsBlankKeys(
         IF Trim(Head(ps).key) = "" THEN row ELSE Put(row, Head(ps).key, "Processing Error"),
         Tail(ps))

\* The catch block: for (const p of prompts) row[p.key] = 'Processing Error'
RECURSIVE ErrorRow(_, _)
ErrorRow(row, ps) ==
  IF ps = <<>> THEN row ELSE ErrorRow(Put(row, Head(ps).key, "Processing Error"), Tail(ps))

----------------------------------------------------------------------------
(***************************************************************************)
(* Inputs of the orchestrator runs.                                        *)
(*   A document is [name, wellFormed, raises, nodes]: nodes are the        *)
(*   elements of the Document that DOMParser.parseFromString returns.      *)
(*   For text that is not well-formed XML a browser's DOMParser returns a  *)
(*   <parsererror> document without throwing (Chromium keeps the elements  *)
(*   read before the error, Gecko keeps none); raises marks a host whose   *)
(*   processing of the document throws inside the try block.               *)
(***************************************************************************)
Link(name, selected, text) ==
  [tag |-> "LinkName", name |-> name, selected |-> selected, insert |-> "0", text |-> text]

Plan(name, text) ==
  [tag |-> "PlanData", name |-> name, selected |-> "", insert |-> "", text |-> text]

DocCatalogue ==
  { [name |-> "a.xml", wellFormed |-> TRUE, raises |-> FALSE,
     nodes |-> <<Link("VestNAQACA", "1", ""), Link("OptionA", "0", ""),
                 Link(" OptionB ", "1", " Custom Value "), Plan("PlanName", "Acme 401k")>>],
    [name |-> "b.xml", wellFormed |-> TRUE, raises |-> FALSE,
     nodes |-> <<Link("Vest5YRGradeMatch", "1", ""), Link("Vest3YRClifMatch", "1", "")>>],
    [name |-> "c.xml", wellFormed |-> TRUE, raises |-> FALSE,
     nodes |-> <<Link("OptionA", "0", ""), Link("OptionB", "", "")>>],
    [name |-> "a.xml", wellFormed |-> FALSE, raises |-> FALSE,
     nodes |-> <<Link("VestNAQACA", "1", "")>>],
    [name |-> "d.xml", wellFormed |-> FALSE, raises |-> TRUE, nodes |-> <<>>],
    [name |-> "e.xml", wellFormed |-> TRUE, raises |-> FALSE,
     nodes |-> <<Link("OptionA", "1", ""), Link("Vest5YRGradeMatch", "1", "")>>] }

PromptCatalogue ==
  { [key |-> "VestNAQACA", prompt |-> "Is vesting immediate?",
     linknames |-> "VestNAQACA", quick |-> ""],
    [key |-> "OptionA_OptionB", prompt |-> "Describe the feature",
     linknames |-> "OptionA,OptionB", quick |-> "Plan, Feature"],
    [key |-> "Vest5YRGradeMatch", prompt |-> "What is the vesting schedule for Match?",
     linknames |-> "Vest5YRGradeMatch", quick |-> "Match"],
    [key |-> " ", prompt |-> "Is OptionA offered?", linknames |-> "OptionA", quick |-> ""],
    [key |-> "VestNAQACA", prompt |-> "Describe vesting",
     linknames |-> "", quick |-> "Vesting, \"Immediate\""],
    [key |-> "Feature", prompt |-> " Describe the  feature: ",
     linknames |-> "OptionA,OptionB", quick |-> "Feature, "] }

NoOptions == <<>>

SomeOptions ==
  [q \in {"What is the vesting schedule for Match?", "Describe the feature"} |->
     IF q = "Describe the feature" THEN "Profit sharing\\nMatch 5 percent\\n5 year match"
     ELSE "5 year match\n1-20 (0=0,1=20,...)\nCliff 3"]

SeqsUpTo(S, n) == UNION {[1..k -> S] : k \in 0..n}

----------------------------------------------------------------------------
(***************************************************************************)
(* State.                                                                  *)
(***************************************************************************)
VARIABLES
  enhanced,         \* TRUE: fillDataFromXmlsEnhanced, FALSE: fillDataFromXmls
  prompts,          \* the prompts argument
  xmlFiles,         \* the xmlFiles argument
  optionsByPrompt,  \* the optionsByPrompt argument (enhanced only)
  throwAt,          \* the call at which the onProgress argument throws; 0: never
  pc,               \* "loop", "finally", "returned" or "rejected"
  processed,        \* let processed
  results,          \* const results: filename -> row, a row is key -> string
  reported,         \* the fractions handed to onProgress, as <<processed, length>>
  call,             \* a direct call of one function of the service: its name and arguments
  ret,              \* None while the call is pending, then Some(its result)
  app               \* the state of the App component that starts the run; NoApp without it

vars == <<enhanced, prompts, xmlFiles, optionsByPrompt, throwAt, pc, processed, results,
          reported, call, ret, app>>

inputs == <<enhanced, prompts, xmlFiles, optionsByPrompt, throwAt, call, ret, app>>

run == <<enhanced, prompts, xmlFiles, optionsByPrompt, throwAt, pc, processed, results, reported>>

NoCall == [fn |-> "none"]

\* The function is called without the App component
NoApp == [mounted |-> FALSE]

\* The document the loop is at: processed counts the iterations completed
CurrentFile == xmlFiles[processed + 1]

InitInputs ==
  /\ enhanced \in BOOLEAN
  /\ prompts \in SeqsUpTo(PromptCatalogue, MaxPrompts)
  /\ xmlFiles \in SeqsUpTo(DocCatalogue, MaxDocs)
  /\ optionsByPrompt \in (IF enhanced THEN {NoOptions, SomeOptions} ELSE {NoOptions})
  /\ app = NoApp

InitRun ==
  /\ pc = "loop"
  /\ processed = 0
  /\ results = <<>>
  /\ reported = <<>>
  /\ call = NoCall
  /\ ret = None

\* Faulty variant: the flags map is shared by the documents, so the flags of the
\* documents processed before are still registered when a document is resolved
TryRowSharedFlags(file) ==
  LET nodesUpTo[n \in 0..processed] ==
        IF n = 0 THEN <<>> ELSE nodesUpTo[n - 1] \o xmlFiles[n].nodes
  IN  FillRow(<<>>, prompts, parseXmlToFlags(nodesUpTo[processed] \o file.nodes),
              optionsByPrompt, enhanced)

\* The try block completed: the row of the document
TryRow(file) == FillRow(<<>>, prompts, parseXmlToFlags(file.nodes), optionsByPrompt, enhanced)

\* Faulty variant: the documents still to be processed are all extracted in one
\* step, before the progress of the first of them is reported
ExtractRemainingDocuments ==
  /\ pc = "loop"
  /\ processed < Len(xmlFiles)
  /\ LET rowsUpTo[n \in processed..Len(xmlFiles)] ==
           IF n = processed THEN results
           ELSE Put(rowsUpTo[n - 1], xmlFiles[n].name,
                    IF xmlFiles[n].raises THEN ErrorRow(<<>>, prompts) ELSE TryRow(xmlFiles[n]))
     IN  results' = rowsUpTo[Len(xmlFiles)]
  /\ pc' = "finally"
  /\ UNCHANGED <<inputs, processed, reported>>

\* Faulty variant: a document that fails leaves no row
ExtractDocumentDropsFailed ==
  /\ pc = "loop"
  /\ processed < Len(xmlFiles)
  /\ results' = IF CurrentFile.raises THEN results
                ELSE Put(results, CurrentFile.name, TryRow(CurrentFile))
  /\ pc' = "finally"
  /\ UNCHANGED <<inputs, processed, reported>>

\* try { .. results[file.name] = row } catch (e) { .. results[file.name] = row }
ExtractDocument ==
  /\ pc = "loop"
  /\ processed < Len(xmlFiles)
  /\ results' = Put(results, CurrentFile.name,
                    IF CurrentFile.raises THEN ErrorRow(<<>>, prompts) ELSE TryRow(CurrentFile))
  /\ pc' = "finally"
  /\ UNCHANGED <<inputs, processed, reported>>

\* Faulty variant: the fraction is reported before the document is counted
ReportProgressBeforeCount ==
  /\ pc = "finally"
  /\ throwAt # processed + 1
  /\ processed' = processed + 1
  /\ reported' = Append(reported, <<processed, Len(xmlFiles)>>)
  /\ pc' = "loop"
  /\ UNCHANGED <<inputs, results>>

\* finally { processed += 1; onProgress(processed / xmlFiles.length); }, onProgress returns
ReportProgress ==
  /\ pc = "finally"
  /\ throwAt # processed + 1
  /\ processed' = processed + 1
  /\ reported' = Append(reported, <<processed + 1, Len(xmlFiles)>>)
  /\ pc' = "loop"
  /\ UNCHANGED <<inputs, results>>

\* The same, onProgress throws: the exception leaves the finally block and the
\* async function, whose promise is rejected
ReportProgressThrows ==
  /\ pc = "finally"
  /\ throwAt = processed + 1
  /\ processed' = processed + 1
  /\ reported' = Append(reported, <<processed + 1, Len(xmlFiles)>>)
  /\ pc' = "rejected"
  /\ UNCHANGED <<inputs, results>>

\* The loop is over: return results
Return ==
  /\ pc = "loop"
  /\ processed = Len(xmlFiles)
  /\ pc' = "returned"
  /\ UNCHANGED <<inputs, processed, results, reported>>

\* A run whose progress observer returns normally, as the application's does
\* (src/App.tsx: (progress) => setProcessingProgress(progress))
Init == InitInputs /\ throwAt = 0 /\ InitRun

Next == ExtractDocument \/ ReportProgress \/ Return

Spec == Init /\ [][Next]_vars

\* A run with any progress observer: it may throw at any one of its calls
InitObserver == InitInputs /\ throwAt \in 0..MaxDocs /\ InitRun

NextObserver == ExtractDocument \/ ReportProgress \/ ReportProgressThrows \/ Return

SpecObserver == InitObserver /\ [][NextObserver]_vars

----------------------------------------------------------------------------
(***************************************************************************)
(* Direct calls of the Candidate Resolver and of the Options Matcher, on   *)
(* arguments drawn from bounded sets. No orchestrator run is in progress.  *)
(***************************************************************************)
\* No run of the orchestrator is in progress
Idle ==
  /\ enhanced = FALSE /\ prompts = <<>> /\ xmlFiles = <<>> /\ optionsByPrompt = NoOptions
  /\ throwAt = 0 /\ pc = "idle" /\ processed = 0 /\ results = <<>> /\ reported = <<>>

NoRun == Idle /\ app = NoApp

\* Flag maps as the Flag Extractor builds them: any set of names, any integer
\* for selected (here 0..MaxSelected), a trimmed text or none
FlagNames == {"OptionA", "OptionB", "OptionAAmt"}

LinkFlags == [selected : 0..MaxSelected, insert : {0}, text : {"", "Custom Value", "5%"}]

FlagMaps == UNION {[S -> LinkFlags] : S \in SUBSET FlagNames}

LinkCsvCatalogue ==
  {"", "OptionA", " \"OptionB\" ", "OptionA,,", "OptionA,OptionB", "\"OptionB\", OptionA",
   "OptionB,OptionAAmt,OptionA"}

PromptTextCatalogue ==
  {"Is vesting immediate?", "Describe the feature", " does the plan Match? ", "Isotope count?"}

InitResolver ==
  /\ NoRun
  /\ ret = None
  /\ \E linkcsv \in LinkCsvCatalogue, promptText \in PromptTextCatalogue, flags \in FlagMaps :
       call = [fn |-> "chooseValueForLinkcsv", linkcsv |-> linkcsv,
               promptText |-> promptText, flags |-> flags]

CallChooseValue ==
  /\ call.fn = "chooseValueForLinkcsv"
  /\ ret = None
  /\ ret' = Some(chooseValueForLinkcsv(call.linkcsv, call.promptText, call.flags))
  /\ UNCHANGED <<run, call, app>>

NextResolver == CallChooseValue

SpecResolver == InitResolver /\ [][NextResolver]_vars

\* Direct calls of the Candidate Resolver with one candidate whose linkname
\* starts with "yes" or "no" in either letter case, or with neither
PolarityNames == {"YESMatch", "noLoans", "YESMatchAmt", "OptionA"}

PolarityFlags == [selected : 0..MaxSelected, insert : {0}, text : {"", "5%"}]

PolarityFlagMaps == UNION {[S -> PolarityFlags] : S \in SUBSET PolarityNames}

PolarityCsvCatalogue == {"YESMatch", "\"noLoans\"", "OptionA", "YESMatchAmt,"}

PolarityPromptCatalogue == {"Describe the match", "Is there a match?"}

InitPolarity ==
  /\ NoRun
  /\ ret = None
  /\ \E linkcsv \in PolarityCsvCatalogue, promptText \in PolarityPromptCatalogue,
        flags \in PolarityFlagMaps :
       call = [fn |-> "chooseValueForLinkcsv", linkcsv |-> linkcsv,
               promptText |-> promptText, flags |-> flags]

SpecPolarity == InitPolarity /\ [][NextResolver]_vars

\* Direct calls of the Candidate Resolver with several candidates whose
\* linknames contain "yes", "no", both or neither, in either letter case
MultiNames == {"MatchYES", "unknownMatch", "YesNoMatch", "OptionA"}

MultiCsvCatalogue ==
  {"OptionA,MatchYES", "unknownMatch,MatchYES", "OptionA,YesNoMatch,unknownMatch",
   "MatchYES,OptionA", "OptionA,\"unknownMatch\""}

InitMulti ==
  /\ NoRun
  /\ ret = None
  /\ \E linkcsv \in MultiCsvCatalogue, promptText \in PolarityPromptCatalogue,
        flags \in UNION {[S -> PolarityFlags] : S \in SUBSET MultiNames} :
       call = [fn |-> "chooseValueForLinkcsv", linkcsv |-> linkcsv,
               promptText |-> promptText, flags |-> flags]

SpecMulti == InitMulti /\ [][NextResolver]_vars

\* Direct calls of the Related-Text Resolver: a name, the name with "Main",
\* and names made of these and a suffix token; the texts tell the flags apart
RelatedNames == {"Match", "MatchMain", "MatchMainAmt", "MatchMainDollars", "MatchAge", "MatchAmt"}

RelatedFlags == [selected : {1}, insert : {0}, text : {"", "5%", "Age 21"}]

InitRelated ==
  /\ NoRun
  /\ ret = None
  /\ \E name \in {"Match", "MatchMain"},
        flags \in UNION {[S -> RelatedFlags] : S \in SUBSET RelatedNames} :
       call = [fn |-> "relatedText", name |-> name, flags |-> flags]

CallRelatedText ==
  /\ call.fn = "relatedText"
  /\ ret = None
  /\ ret' = Some(relatedText(call.name, call.flags))
  /\ UNCHANGED <<run, call, app>>

NextRelated == CallRelatedText

SpecRelated == InitRelated /\ [][NextRelated]_vars

RECURSIVE JoinLines(_, _)
JoinLines(lines, sep) ==
  IF lines = <<>> THEN ""
  ELSE IF Len(lines) = 1 THEN lines[1]
       ELSE lines[1] \o sep \o JoinLines(Tail(lines), sep)

OptionLines == {"Other", "Match only", "Match 100%", "100 percent match", "  "}

\* Lines joined by a line break or by the two characters backslash, n
OptionTexts ==
  {JoinLines(ls, sep) : ls \in SeqsUpTo(OptionLines, MaxOptions), sep \in {"\n", "\\n"}}

SelectableNames == {"Vest100Match", "ProfitPerc", "OptionA"}

InitOptions ==
  /\ NoRun
  /\ ret = None
  /\ \E names \in SeqsUpTo(SelectableNames, MaxSelNames), oa \in OptionTexts :
       call = [fn |-> "bestMatchFromOptions", selectedNames |-> names, optionsAllowed |-> oa]

CallBestMatch ==
  /\ call.fn = "bestMatchFromOptions"
  /\ ret = None
  /\ ret' = Some(bestMatchFromOptions(call.selectedNames, call.optionsAllowed))
  /\ UNCHANGED <<run, call, app>>

NextOptions == CallBestMatch

SpecOptions == InitOptions /\ [][NextOptions]_vars

\* Direct calls of the Vesting Schedule Resolver. The names are keys of its
\* three tables, and one name that differs from a key by letter case only.
VestingNames ==
  {"Vest5YRGradeMatch", "4YRGradedNEContr", "Vest3YRClifMatch", "Vest100Match",
   "VestNAQACA", "vest5yrgradematch"}

VestingFlags == [selected : 0..MaxSelected, insert : {0}, text : {""}]

VestingFlagMaps == UNION {[S -> VestingFlags] : S \in SUBSET VestingNames}

QuickTextCatalogue == {"", "Employer Match", "Profit Sharing, \"Immediate\""}

InitVesting ==
  /\ NoRun
  /\ ret = None
  /\ \E flags \in VestingFlagMaps, quickText \in QuickTextCatalogue :
       call = [fn |-> "deriveVestingShortLabel", flags |-> flags, quickText |-> quickText]

CallDeriveVesting ==
  /\ call.fn = "deriveVestingShortLabel"
  /\ ret = None
  /\ ret' = Some(deriveVestingShortLabel(call.flags, call.quickText))
  /\ UNCHANGED <<run, call, app>>

NextVesting == CallDeriveVesting

SpecVesting == InitVesting /\ [][NextVesting]_vars

\* Direct calls of the Vesting Schedule Resolver on the immediate-vesting
\* linknames alone, with quick texts that mention match, non-elective, profit
\* or none of them
ImmediateNames ==
  {"NAVestMatch", "Vest100Match", "100VestingNEContr", "Vest100NEContr",
   "VestNAQACA", "VestNAQACAMatch", "VestNAQACANE"}

ImmediateFlags == [selected : {0, 1}, insert : {0}, text : {""}]

ImmediateQuickCatalogue ==
  {"", "Employer MATCH", "Non Elective", "Safe harbor non-elective", "Profit Sharing"}

InitImmediate ==
  /\ NoRun
  /\ ret = None
  /\ \E flags \in UNION {[S -> ImmediateFlags] : S \in SUBSET ImmediateNames},
        quickText \in ImmediateQuickCatalogue :
       call = [fn |-> "deriveVestingShortLabel", flags |-> flags, quickText |-> quickText]

SpecImmediate == InitImmediate /\ [][NextVesting]_vars

\* Direct calls of the vesting label expansion: the short labels the Vesting
\* Schedule Resolver produces, and allowed options of up to MaxOptions lines
ShortLabels == {"2-20", "1-20", "1-25", "Cliff 3", "Cliff 2", "Immediate"}

VestingOptionLines ==
  {"1-20 (0=0,1=20,...)", " 20/Yr graded ", "CLIFF 3 years", "2-20 schedule", "Other"}

VestingOptionTexts ==
  {JoinLines(ls, sep) : ls \in SeqsUpTo(VestingOptionLines, MaxOptions), sep \in {"\n", "\\n"}}

InitExpand ==
  /\ NoRun
  /\ ret = None
  /\ \E shortLabel \in ShortLabels, oa \in VestingOptionTexts :
       call = [fn |-> "expandVestingLabel", shortLabel |-> shortLabel, optionsAllowed |-> oa]

CallExpandVesting ==
  /\ call.fn = "expandVestingLabel"
  /\ ret = None
  /\ ret' = Some(expandVestingLabel(call.shortLabel, call.optionsAllowed))
  /\ UNCHANGED <<run, call, app>>

NextExpand == CallExpandVesting

SpecExpand == InitExpand /\ [][NextExpand]_vars

----------------------------------------------------------------------------
(***************************************************************************)
(* Prompt keys: parseCsv (PromptUpload), loadLocal (App) and               *)
(* getBundledPrompts build the key of each prompt from the row's linkname  *)
(* string. A row is [prompt, linknames], the fields as read from the map.  *)
(***************************************************************************)
\* baseKey.replace(/[^a-zA-Z0-9_]/g, '_'); if (/^[0-9]/.test(baseKey)) baseKey = '_' + baseKey
RECURSIVE ReplaceNonWord(_)
ReplaceNonWord(s) ==
  IF s = "" THEN ""
  ELSE (IF IsWordChar(CharAt(s, 1)) THEN CharAt(s, 1) ELSE "_") \o ReplaceNonWord(Drop(s, 1))

SanitizeKey(baseKey) ==
  LET b == ReplaceNonWord(baseKey)
  IN  IF b # "" /\ IsDigit(CharAt(b, 1)) THEN "_" \o b ELSE b

\* keyCounts.get(baseKey) || 0
CountOf(keyCounts, baseKey) == IF baseKey \in DOMAIN keyCounts THEN keyCounts[baseKey] ELSE 0

\* const finalKey = count > 0 ? `${baseKey}_${count + 1}` : baseKey
FinalKey(keyCounts, baseKey) ==
  IF CountOf(keyCounts, baseKey) > 0
  THEN baseKey \o "_" \o ToString(CountOf(keyCounts, baseKey) + 1)
  ELSE baseKey

\* The keys of the rows from position i on; Base(i) is the row's base key
\* before it is sanitized, "" for a row that is skipped
RECURSIVE KeysFrom(_, _, _, _)
KeysFrom(Base(_), i, n, keyCounts) ==
  IF i > n THEN <<>>
  ELSE IF Base(i) = "" THEN KeysFrom(Base, i + 1, n, keyCounts)
       ELSE LET baseKey == SanitizeKey(Base(i))
            IN  <<FinalKey(keyCounts, baseKey)>>
                  \o KeysFrom(Base, i + 1, n,
                              Put(keyCounts, baseKey, CountOf(keyCounts, baseKey) + 1))

\* parseCsv: a row without prompt text is skipped; the fallback names the line
parseCsvKeys(rows) ==
  LET Base(i) == IF rows[i].prompt = "" THEN ""
                 ELSE IF rows[i].linknames = "" THEN "prompt_row_" \o ToString(i)
                      ELSE rows[i].linknames
  IN  KeysFrom(Base, 1, Len(rows), <<>>)

\* loadLocal: every entry gives a prompt; the fallback names the position
loadLocalKeys(rows) ==
  LET Base(i) == IF Trim(rows[i].linknames) = "" THEN "prompt_row_" \o ToString(i)
                 ELSE Trim(rows[i].linknames)
  IN  KeysFrom(Base, 1, Len(rows), <<>>)

\* getBundledPrompts: the fallback is `prompt_${Math.random().toString(36).slice(2,8)}`,
\* random[i] being the characters drawn for entry i
getBundledPromptsKeys(rows, random) ==
  LET Base(i) == IF Trim(rows[i].linknames) = "" THEN "prompt_" \o random[i]
                 ELSE Trim(rows[i].linknames)
  IN  KeysFrom(Base, 1, Len(rows), <<>>)

RowCatalogue ==
  { [prompt |-> "Is vesting immediate?", linknames |-> "OptionA"],
    [prompt |-> "Describe the feature", linknames |-> "OptionA_2"],
    [prompt |-> "Describe vesting", linknames |-> "401k Match, Option-A"],
    [prompt |-> "Is OptionA offered?", linknames |-> ""],
    [prompt |-> "", linknames |-> "OptionA"] }

RandomCatalogue == {"k3x9ab", "q07zd1"}

InitKeys ==
  /\ NoRun
  /\ ret = None
  /\ \E fn \in {"parseCsv", "loadLocal", "getBundledPrompts"},
        rows \in SeqsUpTo(RowCatalogue, MaxRows) :
       call = [fn |-> fn, rows |-> rows]

CallParseCsv ==
  /\ call.fn = "parseCsv"
  /\ ret = None
  /\ ret' = Some(parseCsvKeys(call.rows))
  /\ UNCHANGED <<run, call, app>>

CallLoadLocal ==
  /\ call.fn = "loadLocal"
  /\ ret = None
  /\ ret' = Some(loadLocalKeys(call.rows))
  /\ UNCHANGED <<run, call, app>>

CallGetBundledPrompts ==
  /\ call.fn = "getBundledPrompts"
  /\ ret = None
  /\ \E random \in [1..Len(call.rows) -> RandomCatalogue] :
       ret' = Some(getBundledPromptsKeys(call.rows, random))
  /\ UNCHANGED <<run, call, app>>

NextKeys == CallParseCsv \/ CallLoadLocal \/ CallGetBundledPrompts

SpecKeys == InitKeys /\ [][NextKeys]_vars

\* Direct calls of the Flag Extractor on the elements of a parsed document:
\* flag-style and field-style elements, names that occur twice, names with
\* white space around them or blank, attribute values other than "0" and "1"
ElementCatalogue ==
  { Link("OptionA", "1", ""),
    Link("OptionA", "0", "first"),
    [Link("OptionB", "2", "") EXCEPT !.insert = "3"],
    Link(" ", "1", "x"),
    Plan("OptionA", "plan text"),
    Plan("OptionB", ""),
    Plan(" OptionB ", " Acme "),
    Plan("OptionB", "Later"),
    Plan("PlanName", "Other") }

InitExtractor ==
  /\ NoRun
  /\ ret = None
  /\ \E nodes \in SeqsUpTo(ElementCatalogue, MaxNodes) :
       call = [fn |-> "parseXmlToFlags", nodes |-> nodes]

CallParseXml ==
  /\ call.fn = "parseXmlToFlags"
  /\ ret = None
  /\ ret' = Some(parseXmlToFlags(call.nodes))
  /\ UNCHANGED <<run, call, app>>

NextExtractor == CallParseXml

SpecExtractor == InitExtractor /\ [][NextExtractor]_vars

----------------------------------------------------------------------------
(***************************************************************************)
(* The App component (src/App.tsx). app holds its state:                   *)
(*   useLocalDirMaps, xmlFiles, prompts, optionsByPrompt, results,         *)
(*   isLoading, error, processingProgress: the useState values;            *)
(*   loads: the invocations of loadLocal in flight, each at the fetch it   *)
(*     awaits ("map" or "options");                                        *)
(*   backend: handleProcessFiles awaits the /process-local request;        *)
(*   lastPrompts, lastOptions: history, the argument of the most recent    *)
(*     handlePromptsChange / onLoaded of an upload made while auto-load is *)
(*     off, None when there is none since auto-load was last on (or, for   *)
(*     the prompts, since the files were last changed).                    *)
(* A handler runs to completion: the events of the component are taken     *)
(* while no run of the orchestrator is in progress (the orchestrators do   *)
(* not await), and the continuation of handleProcessFiles follows the      *)
(* run's return.                                                           *)
(***************************************************************************)
AutoLoadError ==
  "Could not auto-load map/options from local config. You can upload CSVs instead."

\* What FileUpload hands to onFilesChange
AppFiles ==
  { <<CHOOSE d \in DocCatalogue : d.name = "c.xml">>,
    <<CHOOSE d \in DocCatalogue : d.name = "b.xml",
      CHOOSE d \in DocCatalogue : d.name = "e.xml">> }

\* What PromptUpload hands to onPromptsChange: the prompts parsed, [] on a failure
UploadedMaps ==
  { <<>>,
    <<[key |-> "OptionA_OptionB", prompt |-> "Describe the feature",
       linknames |-> "OptionA,OptionB", quick |-> "Plan, Feature"]>>,
    <<[key |-> "OptionA", prompt |-> "Is OptionA offered?", linknames |-> "OptionA",
       quick |-> ""],
      [key |-> "Vest5YRGradeMatch", prompt |-> "What is the vesting schedule for Match?",
       linknames |-> "Vest5YRGradeMatch", quick |-> "Match"]>> }

\* What DataPointsUpload hands to onLoaded: the options parsed, {} on a failure
UploadedOptions ==
  { NoOptions,
    [q \in {"Describe the feature"} |-> "Profit sharing\nOptionB applies"] }

\* The body of the /local-map response
LocalMaps ==
  { <<[prompt |-> "Is vesting immediate?", linknames |-> "VestNAQACA", quick |-> ""],
      [prompt |-> "Describe the feature", linknames |-> "OptionA,OptionB",
       quick |-> "Plan, Feature"]>> }

\* The body of the /local-options response
LocalOptions == {SomeOptions}

\* The rows of the /process-local response, as handleProcessFiles stores them
BackendRows ==
  { <<[promptKey |-> "Is vesting immediate?", promptText |-> "Is vesting immediate?",
       values |-> [n \in {"c.xml"} |-> "No"]]>> }

\* const built: Prompt[] = (mapData as any[]).map((e, idx) => ..)
BuiltPrompts(mapData) ==
  [i \in 1..Len(mapData) |->
     [key |-> loadLocalKeys(mapData)[i], prompt |-> mapData[i].prompt,
      linknames |-> mapData[i].linknames, quick |-> mapData[i].quick]]

\* const resultRows = prompts.map(prompt => ({ .. filledData[file.name]?.[prompt.key] || 'N/A' }))
ResultRows ==
  [i \in 1..Len(prompts) |->
     [promptKey |-> prompts[i].key, promptText |-> prompts[i].prompt,
      values |-> [n \in {xmlFiles[j].name : j \in 1..Len(xmlFiles)} |->
                    IF /\ n \in DOMAIN results
                       /\ prompts[i].key \in DOMAIN results[n]
                       /\ results[n][prompts[i].key] # ""
                    THEN results[n][prompts[i].key] ELSE "N/A"]]]

WithoutLoad(loads, i) == SubSeq(loads, 1, i - 1) \o SubSeq(loads, i + 1, Len(loads))

\* The component is mounted: the effect has run with useLocalDirMaps = true
InitApp ==
  /\ Idle
  /\ call = NoCall
  /\ ret = None
  /\ app = [mounted |-> TRUE, useLocalDirMaps |-> TRUE, xmlFiles |-> <<>>, prompts |-> <<>>,
            optionsByPrompt |-> NoOptions, results |-> <<>>, isLoading |-> FALSE,
            error |-> None, processingProgress |-> <<0, 1>>, loads |-> <<"map">>,
            backend |-> FALSE, lastPrompts |-> None, lastOptions |-> None]

\* handleFilesChange, called by FileUpload
HandleFilesChange ==
  /\ pc = "idle"
  /\ \E files \in AppFiles :
       app' = [app EXCEPT !.xmlFiles = files, !.prompts = <<>>, !.results = <<>>,
                          !.error = None, !.lastPrompts = None]
  /\ UNCHANGED <<run, call, ret>>

\* The checkbox: setUseLocalDirMaps(e.target.checked), then the effect, which
\* calls loadLocal when the new value is true
ToggleLocalDirMaps ==
  /\ pc = "idle"
  /\ app.xmlFiles # <<>>
  /\ IF app.useLocalDirMaps
     THEN app' = [app EXCEPT !.useLocalDirMaps = FALSE]
     ELSE /\ Len(app.loads) < MaxLoads
          /\ app' = [app EXCEPT !.useLocalDirMaps = TRUE, !.loads = Append(@, "map"),
                                !.lastPrompts = None, !.lastOptions = None]
  /\ UNCHANGED <<run, call, ret>>

\* handlePromptsChange, called by PromptUpload, which is rendered while
\* auto-load is off and is disabled while isLoading
HandlePromptsChange ==
  /\ pc = "idle"
  /\ app.xmlFiles # <<>>
  /\ ~app.useLocalDirMaps
  /\ ~app.isLoading
  /\ \E newPrompts \in UploadedMaps :
       app' = [app EXCEPT !.prompts = newPrompts, !.results = <<>>, !.error = None,
                          !.lastPrompts = Some(newPrompts)]
  /\ UNCHANGED <<run, call, ret>>

\* onLoaded={setOptionsByPrompt} of DataPointsUpload, disabled while isLoading
OptionsLoaded ==
  /\ pc = "idle"
  /\ app.xmlFiles # <<>>
  /\ ~app.isLoading
  /\ \E map \in UploadedOptions :
       app' = [app EXCEPT !.optionsByPrompt = map,
                          !.lastOptions = IF app.useLocalDirMaps THEN @ ELSE Some(map)]
  /\ UNCHANGED <<run, call, ret>>

\* loadLocal: the /local-map response is read; setPrompts(built); fetch('/local-options')
MapFetched ==
  /\ pc = "idle"
  /\ \E i \in 1..Len(app.loads), mapData \in LocalMaps :
       /\ app.loads[i] = "map"
       /\ app' = [app EXCEPT !.prompts = BuiltPrompts(mapData), !.loads[i] = "options"]
  /\ UNCHANGED <<run, call, ret>>

\* loadLocal: the /local-map request fails or answers !ok: the outer catch
MapFetchFails ==
  /\ pc = "idle"
  /\ \E i \in 1..Len(app.loads) :
       /\ app.loads[i] = "map"
       /\ app' = [app EXCEPT !.error = Some(AutoLoadError), !.loads = WithoutLoad(@, i)]
  /\ UNCHANGED <<run, call, ret>>

\* loadLocal: the /local-options response is read: setOptionsByPrompt(options)
OptionsFetched ==
  /\ pc = "idle"
  /\ \E i \in 1..Len(app.loads), options \in LocalOptions :
       /\ app.loads[i] = "options"
       /\ app' = [app EXCEPT !.optionsByPrompt = options, !.loads = WithoutLoad(@, i)]
  /\ UNCHANGED <<run, call, ret>>

\* loadLocal: the /local-options request fails or answers !ok: setOptionsByPrompt({})
OptionsFetchFails ==
  /\ pc = "idle"
  /\ \E i \in 1..Len(app.loads) :
       /\ app.loads[i] = "options"
       /\ app' = [app EXCEPT !.optionsByPrompt = NoOptions, !.loads = WithoutLoad(@, i)]
  /\ UNCHANGED <<run, call, ret>>

\* handleProcessFiles up to its await; the button is rendered when there are
\* files (so xmlFiles.length === 0 is false) and is disabled while isLoading
HandleProcessFiles ==
  /\ pc = "idle"
  /\ app.xmlFiles # <<>>
  /\ ~app.isLoading
  /\ IF app.useLocalDirMaps
     THEN /\ app' = [app EXCEPT !.isLoading = TRUE, !.error = None,
                                !.processingProgress = <<0, 1>>, !.backend = TRUE]
          /\ UNCHANGED <<run, call, ret>>
     ELSE /\ app' = [app EXCEPT !.isLoading = TRUE, !.error = None,
                                !.processingProgress = <<0, 1>>]
          /\ enhanced' = (DOMAIN app.optionsByPrompt # {})
          /\ prompts' = app.prompts
          /\ xmlFiles' = app.xmlFiles
          /\ optionsByPrompt' = app.optionsByPrompt
          /\ throwAt' = 0
          /\ pc' = "loop"
          /\ processed' = 0
          /\ results' = <<>>
          /\ reported' = <<>>
          /\ UNCHANGED <<call, ret>>

\* handleProcessFiles after the run returned: setResults(resultRows), finally
ProcessReturned ==
  /\ pc = "returned"
  /\ app' = [app EXCEPT !.results = ResultRows, !.isLoading = FALSE,
                        !.processingProgress = IF reported = <<>> THEN @
                                               ELSE reported[Len(reported)]]
  /\ enhanced' = FALSE /\ prompts' = <<>> /\ xmlFiles' = <<>> /\ optionsByPrompt' = NoOptions
  /\ throwAt' = 0 /\ pc' = "idle" /\ processed' = 0 /\ results' = <<>> /\ reported' = <<>>
  /\ UNCHANGED <<call, ret>>

\* handleProcessFiles after the /process-local response: setResults(resultRows), finally
BackendAnswered ==
  /\ pc = "idle"
  /\ app.backend
  /\ \E rows \in BackendRows :
       app' = [app EXCEPT !.results = rows, !.isLoading = FALSE, !.backend = FALSE]
  /\ UNCHANGED <<run, call, ret>>

\* handleProcessFiles, the /process-local request fails or answers !ok: catch, finally
BackendFails ==
  /\ pc = "idle"
  /\ app.backend
  /\ app' = [app EXCEPT !.error = Some("process-local failed with status 500"),
                        !.isLoading = FALSE, !.backend = FALSE]
  /\ UNCHANGED <<run, call, ret>>

NextApp ==
  \/ HandleFilesChange \/ ToggleLocalDirMaps \/ HandlePromptsChange \/ OptionsLoaded
  \/ MapFetched \/ MapFetchFails \/ OptionsFetched \/ OptionsFetchFails
  \/ HandleProcessFiles \/ ExtractDocument \/ ReportProgress \/ Return \/ ProcessReturned
  \/ BackendAnswered \/ BackendFails

SpecApp == InitApp /\ [][NextApp]_vars

----------------------------------------------------------------------------
(***************************************************************************)
(* Vocabulary of the properties of a run.                                  *)
(***************************************************************************)
\* The number of documents whose row has been stored
Stored == IF pc = "finally" THEN processed + 1 ELSE processed

\* Document i is the last one stored under its filename: its row is the one
\* the results hold for that name
LastWithName(i) == \A j \in (i + 1)..Stored : xmlFiles[j].name # xmlFiles[i].name

\* Prompt k is the last one with its key: its value is the one a row holds
LastWithKey(k) == \A m \in (k + 1)..Len(prompts) : prompts[m].key # prompts[k].key

HasValue(i, k) ==
  /\ xmlFiles[i].name \in DOMAIN results
  /\ prompts[k].key \in DOMAIN results[xmlFiles[i].name]

ValueOf(i, k) == results[xmlFiles[i].name][prompts[k].key]

Ended == pc \in {"returned", "rejected"}

(***************************************************************************)
(* C1. A document whose processing raises an exception gets a row that     *)
(* maps every prompt's key to "Processing Error" (the row kept under its   *)
(* filename as long as no later document of the same name replaces it),    *)
(* and the loop goes on: the run returns only after every document of the  *)
(* list has been processed and has a row.                                  *)
(***************************************************************************)
C1_FailedDocumentRow ==
  /\ \A i \in 1..Stored :
       (xmlFiles[i].raises /\ LastWithName(i)) =>
         \A k \in 1..Len(prompts) : HasValue(i, k) /\ ValueOf(i, k) = "Processing Error"
  /\ pc = "returned" =>
       /\ processed = Len(xmlFiles)
       /\ \A i \in 1..Len(xmlFiles) : xmlFiles[i].name \in DOMAIN results
       /\ \A i \in 1..Len(xmlFiles) :
            (~xmlFiles[i].raises /\ LastWithName(i)) =>
              results[xmlFiles[i].name] = TryRow(xmlFiles[i])

C1_Witness ==
  /\ pc = "returned"
  /\ Len(xmlFiles) = 2 /\ Len(prompts) = 2
  /\ xmlFiles[1].raises /\ ~xmlFiles[2].raises
  /\ \E k \in 1..2 : Trim(prompts[k].key) = ""
  /\ \A k \in 1..2 : ValueOf(1, k) = "Processing Error"
  /\ \E k \in 1..2 : HasValue(2, k) /\ ValueOf(2, k) # "Processing Error"

(***************************************************************************)
(* C2. Every prompt's value for a document whose text is not well-formed   *)
(* XML is "Processing Error".                                              *)
(***************************************************************************)
C2_MalformedGivesProcessingError ==
  \A i \in 1..Stored :
    (~xmlFiles[i].wellFormed /\ LastWithName(i)) =>
      \A k \in 1..Len(prompts) : HasValue(i, k) /\ ValueOf(i, k) = "Processing Error"

(***************************************************************************)
(* C3. After a run returns, every document and every prompt have a value   *)
(* in the result, under the document's filename and the prompt's key.      *)
(* As claimed: for every prompt.                                           *)
(***************************************************************************)
C3_EveryPairHasValue ==
  pc = "returned" =>
    \A i \in 1..Len(xmlFiles) : \A k \in 1..Len(prompts) : HasValue(i, k)

(***************************************************************************)
(* C3, amended. After a run returns, every document and every prompt whose *)
(* key is not blank have a string value in the result; a prompt whose key  *)
(* is blank has a value exactly in the rows written by the catch block.    *)
(***************************************************************************)
C3_EveryNonBlankKeyHasValue ==
  pc = "returned" =>
    \A i \in 1..Len(xmlFiles) : \A k \in 1..Len(prompts) :
      /\ Trim(prompts[k].key) # "" => (HasValue(i, k) /\ ValueOf(i, k) \in STRING)
      /\ (Trim(prompts[k].key) = "" /\ LastWithName(i)) =>
           (HasValue(i, k) <=> xmlFiles[i].raises)

C3_Witness ==
  /\ pc = "returned"
  /\ Len(xmlFiles) = 2 /\ Len(prompts) = 2
  /\ xmlFiles[1].name # xmlFiles[2].name
  /\ xmlFiles[1].raises /\ ~xmlFiles[2].raises
  /\ Trim(prompts[1].key) = "" /\ Trim(prompts[2].key) # ""
  /\ HasValue(1, 1) /\ ~HasValue(2, 1)
  /\ ValueOf(2, 2) = "N/A"

(***************************************************************************)
(* C4. The returned mapping has one row per document. As claimed: N rows   *)
(* for any list of N documents.                                            *)
(***************************************************************************)
C4_OneRowPerDocument ==
  pc = "returned" => Cardinality(DOMAIN results) = Len(xmlFiles)

FileNames == {xmlFiles[i].name : i \in 1..Len(xmlFiles)}

DistinctNames == \A i, j \in 1..Len(xmlFiles) : xmlFiles[i].name = xmlFiles[j].name => i = j

(***************************************************************************)
(* C4, amended. The returned mapping has one row per distinct filename,    *)
(* succeeding or failing: N rows for N documents of pairwise distinct      *)
(* filenames; documents that share a filename share one row.               *)
(***************************************************************************)
C4_OneRowPerFilename ==
  pc = "returned" =>
    /\ DOMAIN results = FileNames
    /\ DistinctNames => Cardinality(DOMAIN results) = Len(xmlFiles)

C4_Witness ==
  /\ pc = "returned"
  /\ Len(xmlFiles) = 2
  /\ DistinctNames
  /\ xmlFiles[1].raises /\ ~xmlFiles[2].raises
  /\ Cardinality(DOMAIN results) = 2

(***************************************************************************)
(* C5. onProgress receives exactly one fraction per document handled,      *)
(* the i-th being i / total: all in [0,1], strictly increasing, and the    *)
(* last one of a run that returns is 1.                                    *)
(***************************************************************************)
\* a/b < c/d for positive denominators
FractionLess(f, g) == f[1] * g[2] < g[1] * f[2]

C5_ProgressFractions ==
  /\ Len(reported) = processed
  /\ \A i \in 1..Len(reported) :
       /\ reported[i] = <<i, Len(xmlFiles)>>
       /\ reported[i][2] > 0 /\ 0 <= reported[i][1] /\ reported[i][1] <= reported[i][2]
  /\ \A i, j \in 1..Len(reported) : i < j => FractionLess(reported[i], reported[j])
  /\ (pc = "returned" /\ Len(xmlFiles) > 0) =>
       /\ Len(reported) = Len(xmlFiles)
       /\ reported[Len(reported)][1] = reported[Len(reported)][2]

C5_Witness ==
  /\ pc = "returned"
  /\ Len(xmlFiles) = 2
  /\ xmlFiles[1].raises /\ ~xmlFiles[2].raises
  /\ reported = << <<1, 2>>, <<2, 2>> >>

(***************************************************************************)
(* C6. Whatever the progress observer does, a run never ends by throwing   *)
(* and never ends early: when it has ended it has returned, after all the  *)
(* documents have been handled.                                            *)
(***************************************************************************)
C6_RunCompletes ==
  Ended => (pc = "returned" /\ processed = Len(xmlFiles) /\ DOMAIN results = FileNames)

(***************************************************************************)
(* C7. In the enhanced orchestrator a prompt's value is that of the first  *)
(* stage that does not miss, in the order Candidate Resolver, Vesting      *)
(* Schedule Resolver (vesting-schedule prompts only), Options Matcher,     *)
(* quick-text fallback; it is "N/A" when all of them miss.                 *)
(***************************************************************************)
StagesInOrder(p, flags, obp) ==
  << CandidateStage(p, flags),
     IF isVestingSchedulePrompt(p.prompt) THEN VestingStage(p, flags, obp) ELSE None,
     OptionsStage(p, flags, obp),
     QuickStageEnhanced(p, flags) >>

FirstHit(stages) ==
  LET hits == {j \in 1..Len(stages) : stages[j] # None}
  IN  IF hits = {} THEN "N/A" ELSE stages[SetMin(hits)][1]

C7_FirstStageWins ==
  enhanced =>
    \A i \in 1..Stored : \A k \in 1..Len(prompts) :
      (~xmlFiles[i].raises /\ LastWithName(i) /\ LastWithKey(k) /\ Trim(prompts[k].key) # "") =>
        /\ HasValue(i, k)
        /\ ValueOf(i, k) =
             FirstHit(StagesInOrder(prompts[k], parseXmlToFlags(xmlFiles[i].nodes), optionsByPrompt))

\* A vesting-schedule value stands although the Options Matcher has a match too
C7_Witness ==
  /\ enhanced /\ pc = "returned"
  /\ \E i \in 1..Len(xmlFiles) : \E k \in 1..Len(prompts) :
       LET st == StagesInOrder(prompts[k], parseXmlToFlags(xmlFiles[i].nodes), optionsByPrompt)
       IN  /\ ~xmlFiles[i].raises /\ LastWithName(i) /\ LastWithKey(k)
           /\ st[1] = None /\ st[2] # None /\ st[3] # None /\ st[3] # st[2]
           /\ ValueOf(i, k) = st[2][1]

----------------------------------------------------------------------------
(***************************************************************************)
(* Vocabulary of the properties of a direct call.                          *)
(***************************************************************************)
Returned(fn) == call.fn = fn /\ ret # None

\* The call's candidates, and whether it is a Yes/No single-candidate call
CallNames == CandidateNames(call.linkcsv)

YesNoSingle ==
  /\ Returned("chooseValueForLinkcsv")
  /\ looksYesNoPrompt(call.promptText)
  /\ Len(CallNames) = 1

(***************************************************************************)
(* C8. For a Yes/No-classified prompt with a single candidate the          *)
(* Candidate Resolver answers "Yes" when the candidate's Flag has          *)
(* selected=1, and "No" when it has selected=0. As claimed: also "No"      *)
(* when no Flag exists for the candidate.                                  *)
(***************************************************************************)
C8_AbsentFlagIsNo ==
  YesNoSingle =>
    ret[1] = IF IsSelected(call.flags, CallNames[1]) THEN Some("Yes") ELSE Some("No")

(***************************************************************************)
(* C8, amended. For a Yes/No-classified prompt with a single candidate     *)
(* the Candidate Resolver answers "Yes" when the candidate's Flag has      *)
(* selected=1, "No" when the Flag exists with any other selected value     *)
(* (0 in particular), and misses when no Flag exists for the candidate.    *)
(***************************************************************************)
C8_YesNoSingleCandidate ==
  YesNoSingle =>
    ret[1] = IF ~HasFlag(call.flags, CallNames[1]) THEN None
             ELSE IF call.flags[CallNames[1]].selected = 1 THEN Some("Yes")
                  ELSE Some("No")

C8_Witness ==
  /\ YesNoSingle
  /\ call.linkcsv = " \"OptionB\" "
  /\ ~HasFlag(call.flags, "OptionB")
  /\ \E n \in DOMAIN call.flags : call.flags[n].selected = 1
  /\ ret[1] = None

(***************************************************************************)
(* C9. For a multi-candidate prompt the Candidate Resolver's answer is     *)
(* determined by the first candidate, in configured order, whose Flag has  *)
(* selected=1: it is the answer the resolver gives when that candidate is  *)
(* the only one named; when no candidate is selected the resolver misses.  *)
(***************************************************************************)
SelectedPositions == {i \in 1..Len(CallNames) : IsSelected(call.flags, CallNames[i])}

C9_FirstSelectedDecides ==
  (Returned("chooseValueForLinkcsv") /\ Len(CallNames) >= 2) =>
    IF SelectedPositions = {} THEN ret[1] = None
    ELSE LET c == CallNames[SetMin(SelectedPositions)]
         IN  ret[1] = ChooseMulti(<<c, c>>, call.promptText, call.flags)

\* Two selected candidates that alone give different answers; the first decides
C9_Witness ==
  /\ Returned("chooseValueForLinkcsv")
  /\ Len(CallNames) >= 2
  /\ \E i, j \in SelectedPositions :
       /\ i = SetMin(SelectedPositions) /\ i < j /\ i > 1
       /\ ChooseMulti(<<CallNames[i], CallNames[i]>>, call.promptText, call.flags)
            # ChooseMulti(<<CallNames[j], CallNames[j]>>, call.promptText, call.flags)
       /\ ret[1] = ChooseMulti(<<CallNames[i], CallNames[i]>>, call.promptText, call.flags)
       /\ ret[1] # None

(***************************************************************************)
(* C10. The Options Matcher returns the option of strictly highest         *)
(* keyword-overlap score, which must be above zero, the first in list      *)
(* order among those of equal highest score; it misses when no option      *)
(* scores above zero, when the options string is empty, and when no        *)
(* linkname is selected.                                                   *)
(***************************************************************************)
CallOptions == normalizeOptionsAllowed(call.optionsAllowed)

CallKeywords ==
  UNION {linknameKeywords(call.selectedNames[i]) : i \in 1..Len(call.selectedNames)}

CallScore(i) == OptionScore(CallKeywords, CallOptions[i])

TopScore == SetMax({0} \cup {CallScore(i) : i \in 1..Len(CallOptions)})

C10_FirstHighestScore ==
  Returned("bestMatchFromOptions") =>
    IF TopScore = 0 \/ call.optionsAllowed = "" \/ call.selectedNames = <<>>
    THEN ret[1] = None
    ELSE ret[1] = Some(CallOptions[SetMin({i \in 1..Len(CallOptions) : CallScore(i) = TopScore})])

\* Two different options share the highest score; the first of them is returned
C10_Witness ==
  /\ Returned("bestMatchFromOptions")
  /\ TopScore > 0
  /\ \E i, j \in 1..Len(CallOptions) :
       /\ i < j /\ CallOptions[i] # CallOptions[j]
       /\ CallScore(i) = TopScore /\ CallScore(j) = TopScore
       /\ \A h \in 1..(i - 1) : CallScore(h) < TopScore
       /\ \E h \in 1..(i - 1) : CallScore(h) > 0
       /\ ret[1] = Some(CallOptions[i])

(***************************************************************************)
(* C11. The Vesting Schedule Resolver consults its tables in the order     *)
(* graded, cliff, immediate, by exact linkname: when a graded linkname is  *)
(* selected the label is a graded one, whatever else is selected; when no  *)
(* graded but a cliff linkname is selected the label is a cliff one; and   *)
(* otherwise the result is "Immediate" or a miss. The call has no          *)
(* argument that carries the prompt's candidates.                          *)
(***************************************************************************)
SelectedIn(table) == {i \in 1..Len(table) : IsSelected(call.flags, table[i][1])}

LabelsOf(table, idx) == {Some(table[i][2]) : i \in idx}

C11_VestingPriority ==
  Returned("deriveVestingShortLabel") =>
    /\ DOMAIN call = {"fn", "flags", "quickText"}
    /\ SelectedIn(gradedMap) # {} => ret[1] \in LabelsOf(gradedMap, SelectedIn(gradedMap))
    /\ (SelectedIn(gradedMap) = {} /\ SelectedIn(cliffMap) # {}) =>
         ret[1] \in LabelsOf(cliffMap, SelectedIn(cliffMap))
    /\ (SelectedIn(gradedMap) = {} /\ SelectedIn(cliffMap) = {}) =>
         ret[1] \in {None, Some("Immediate")}

\* A document with a graded, a cliff and an immediate linkname selected at once
C11_Witness ==
  /\ Returned("deriveVestingShortLabel")
  /\ SelectedIn(gradedMap) # {}
  /\ SelectedIn(cliffMap) # {}
  /\ IsSelected(call.flags, "VestNAQACA")
  /\ IsSelected(call.flags, "vest5yrgradematch")
  /\ ret[1] = Some("1-25")

(***************************************************************************)
(* C12. For a document that parsed, a prompt none of whose candidates has  *)
(* a Flag in it, in which no flag at all is selected, and for which no     *)
(* allowed options are configured, has the value "N/A", with or without    *)
(* quick text. (The value looked at is the one the row holds under the     *)
(* prompt's key: the prompt has a key that is not blank and is the last    *)
(* prompt with that key.)                                                  *)
(***************************************************************************)
FlagsOf(i) == parseXmlToFlags(xmlFiles[i].nodes)

NoCandidateFlag(i, k) ==
  LET names == CandidateNames(LinkCsv(prompts[k]))
  IN  \A j \in 1..Len(names) : ~HasFlag(FlagsOf(i), names[j])

NothingSelected(i) == \A n \in DOMAIN FlagsOf(i) : FlagsOf(i)[n].selected # 1

NoOptionsFor(k) ==
  /\ Lookup(optionsByPrompt, prompts[k].prompt) = ""
  /\ Lookup(optionsByPrompt, norm(prompts[k].prompt)) = ""

NothingToGoOn(i, k) ==
  /\ xmlFiles[i].wellFormed /\ ~xmlFiles[i].raises
  /\ LastWithName(i) /\ LastWithKey(k) /\ Trim(prompts[k].key) # ""
  /\ NoCandidateFlag(i, k) /\ NothingSelected(i) /\ NoOptionsFor(k)

C12_NothingSelectedIsNA ==
  \A i \in 1..Stored : \A k \in 1..Len(prompts) :
    NothingToGoOn(i, k) => (HasValue(i, k) /\ ValueOf(i, k) = "N/A")

\* Such a prompt whose quick text holds a label, in a document that has flags
C12_Witness ==
  \E i \in 1..Stored : \E k \in 1..Len(prompts) :
    /\ NothingToGoOn(i, k)
    /\ deriveLabelFromQuick(prompts[k].quick) # None
    /\ DOMAIN FlagsOf(i) # {}
    /\ ValueOf(i, k) = "N/A"

(***************************************************************************)
(* C13. With no allowed options configured the two orchestrators agree:    *)
(* the row a run stores for a document is the row the other orchestrator   *)
(* computes for the same prompts and the same document.                    *)
(***************************************************************************)
C13_VariantsAgree ==
  optionsByPrompt = NoOptions =>
    \A i \in 1..Stored :
      (~xmlFiles[i].raises /\ LastWithName(i)) =>
        results[xmlFiles[i].name] = FillRow(<<>>, prompts, FlagsOf(i), NoOptions, ~enhanced)

(***************************************************************************)
(* C14. Documents do not affect one another. The row of a document is a    *)
(* function of the prompts, the options and that document alone, so two    *)
(* runs that differ in one document only give every other document the     *)
(* same row. Stated of every document, it is the claim as written.         *)
(***************************************************************************)
RowAlone(i) ==
  IF xmlFiles[i].raises
  THEN [key \in {prompts[k].key : k \in 1..Len(prompts)} |-> "Processing Error"]
  ELSE FillRow(<<>>, prompts, FlagsOf(i), optionsByPrompt, enhanced)

C14_DocumentsIndependent ==
  \A i \in 1..Stored : results[xmlFiles[i].name] = RowAlone(i)

(***************************************************************************)
(* C14, amended. The row kept under a filename is a function of the        *)
(* prompts, the options and the last processed document of that name       *)
(* alone, and every row belongs to a processed document: changing one      *)
(* document changes at most the row under its own filename, which it       *)
(* shares with the documents of the same name.                             *)
(***************************************************************************)
C14_FilenamesIndependent ==
  /\ \A i \in 1..Stored : LastWithName(i) => results[xmlFiles[i].name] = RowAlone(i)
  /\ DOMAIN results = {xmlFiles[i].name : i \in 1..Stored}

\* A failed document and, under another name, a document with a selected flag
\* that the prompt asks for: each has its own row
C14_Witness ==
  /\ pc = "returned"
  /\ \E i, j \in 1..Len(xmlFiles) : \E k \in 1..Len(prompts) :
       /\ xmlFiles[i].name # xmlFiles[j].name
       /\ xmlFiles[i].raises
       /\ ~xmlFiles[j].raises /\ ~NothingSelected(j)
       /\ LastWithKey(k) /\ Trim(prompts[k].key) # ""
       /\ ValueOf(i, k) = "Processing Error"
       /\ ValueOf(j, k) \notin {"Processing Error", "N/A"}

(***************************************************************************)
(* C15. Documents are processed one at a time, in the order of the list.   *)
(* The reports issued are those of documents 1..processed, in order; the   *)
(* rows stored are those of the documents reported and, while a report is  *)
(* pending, of the one document being reported, whose row is stored        *)
(* already; no row of a later document exists, so the extraction of        *)
(* document i+1 has not begun when document i is reported.                 *)
(***************************************************************************)
Extracted == Len(reported) + (IF pc = "finally" THEN 1 ELSE 0)

C15_OneAtATime ==
  /\ pc \in {"loop", "finally", "returned"}
  /\ Len(reported) = processed
  /\ \A n \in 1..Len(reported) : reported[n] = <<n, Len(xmlFiles)>>
  /\ Extracted <= Len(xmlFiles)
  /\ DOMAIN results = {xmlFiles[i].name : i \in 1..Extracted}
  /\ pc = "finally" => results[CurrentFile.name] = RowAlone(processed + 1)
  /\ pc = "returned" => Len(reported) = Len(xmlFiles)

\* The second of three steps of a list of two documents of different names:
\* the first is reported, the second has its row and is not yet reported
C15_Witness ==
  /\ pc = "finally"
  /\ Len(xmlFiles) = 2 /\ xmlFiles[1].name # xmlFiles[2].name
  /\ reported = << <<1, 2>> >>
  /\ DOMAIN results = {xmlFiles[1].name, xmlFiles[2].name}

(***************************************************************************)
(* Vocabulary of the Flag Extractor's properties: the elements of the      *)
(* call's document that bear a name, in document order.                    *)
(***************************************************************************)
Occurrences(tag, name) ==
  {i \in 1..Len(call.nodes) : call.nodes[i].tag = tag /\ Trim(call.nodes[i].name) = name}

AttributeValue(s) == ParseIntOrZero(IF s = "" THEN "0" ELSE s)

(***************************************************************************)
(* C16. When several LinkName elements of a document bear the same name,   *)
(* the Flag registered for the name has the selected and insert state of   *)
(* the first of them.                                                      *)
(***************************************************************************)
C16_FirstOccurrenceWins ==
  Returned("parseXmlToFlags") =>
    \A name \in DOMAIN ret[1] :
      Occurrences("LinkName", name) # {} =>
        LET first == call.nodes[SetMin(Occurrences("LinkName", name))]
        IN  /\ ret[1][name].selected = AttributeValue(first.selected)
            /\ ret[1][name].insert = AttributeValue(first.insert)

(***************************************************************************)
(* C17. A PlanData element creates a Flag, with selected = 1 and           *)
(* insert = 0, only when its name has no Flag yet. When a Flag exists it   *)
(* leaves selected and insert as they are and sets the text only if the    *)
(* Flag has none. So the Flag of a name has the state the LinkName         *)
(* elements gave it, or 1 and 0 when there are none, and as text the       *)
(* first text that is not empty: the LinkName text, else the text of the   *)
(* first PlanData element of the name that has one.                        *)
(***************************************************************************)
\* The map when the loop over the PlanData elements starts
LinkedFlags == FoldNodes(LinkNameStep, <<>>, ElementsByTagName(call.nodes, "LinkName"))

PlanNames ==
  {Trim(call.nodes[i].name) : i \in {j \in 1..Len(call.nodes) : call.nodes[j].tag = "PlanData"}}
    \ {""}

WithText(name) == {i \in Occurrences("PlanData", name) : Trim(call.nodes[i].text) # ""}

FirstPlanText(name) ==
  IF WithText(name) = {} THEN "" ELSE Trim(call.nodes[SetMin(WithText(name))].text)

C17_PlanDataOnlyFills ==
  Returned("parseXmlToFlags") =>
    /\ DOMAIN ret[1] = DOMAIN LinkedFlags \cup PlanNames
    /\ \A name \in DOMAIN LinkedFlags :
         /\ ret[1][name].selected = LinkedFlags[name].selected
         /\ ret[1][name].insert = LinkedFlags[name].insert
         /\ ret[1][name].text = IF LinkedFlags[name].text # "" THEN LinkedFlags[name].text
                                ELSE FirstPlanText(name)
    /\ \A name \in PlanNames \ DOMAIN LinkedFlags :
         ret[1][name] = [selected |-> 1, insert |-> 0, text |-> FirstPlanText(name)]

\* A name whose LinkName Flag is not selected and has no text, followed by
\* two PlanData elements of the name with different texts
C17_Witness ==
  /\ Returned("parseXmlToFlags")
  /\ \E name \in DOMAIN LinkedFlags :
       /\ LinkedFlags[name].selected # 1 /\ LinkedFlags[name].insert # 0
       /\ LinkedFlags[name].text = ""
       /\ Cardinality({Trim(call.nodes[i].text) : i \in WithText(name)}) = 2
       /\ ret[1][name].text = FirstPlanText(name)

(***************************************************************************)
(* C18. Every Flag of the map the Flag Extractor returns has selected in   *)
(* {0, 1} and insert in {0, 1}, whatever the attributes' values in the     *)
(* document. (A map holds one Flag per name by construction.)              *)
(***************************************************************************)
C18_FlagsAreBits ==
  Returned("parseXmlToFlags") =>
    \A name \in DOMAIN ret[1] :
      ret[1][name].selected \in {0, 1} /\ ret[1][name].insert \in {0, 1}

(***************************************************************************)
(* C19. For a prompt with a single candidate that has no Flag in the       *)
(* document the Candidate Resolver misses, whatever the prompt's wording   *)
(* and whatever the other flags of the document.                           *)
(***************************************************************************)
SingleCandidate == Returned("chooseValueForLinkcsv") /\ Len(CallNames) = 1

C19_SingleWithoutFlagMisses ==
  (SingleCandidate /\ ~HasFlag(call.flags, CallNames[1])) => ret[1] = None

\* A Yes/No prompt whose candidate has no Flag, in a document where a
\* related name of the candidate has text
C19_Witness ==
  /\ SingleCandidate
  /\ ~HasFlag(call.flags, CallNames[1])
  /\ looksYesNoPrompt(call.promptText)
  /\ relatedText(CallNames[1], call.flags) # None
  /\ ret[1] = None

(***************************************************************************)
(* C20. For a prompt with a single candidate that is not a Yes/No prompt   *)
(* and whose Flag exists, the Candidate Resolver returns the related text  *)
(* when there is one; else, for a linkname that starts with "yes" in any   *)
(* letter case, "Yes" when selected = 1 and "No" otherwise; else, for one  *)
(* that starts with "no", "No" when selected = 1 and "Yes" otherwise; and  *)
(* it misses in every other case.                                          *)
(***************************************************************************)
PlainSingle ==
  /\ SingleCandidate
  /\ ~looksYesNoPrompt(call.promptText)
  /\ HasFlag(call.flags, CallNames[1])

NameStarts(prefix) == StartsWith(ToLowerCase(CallNames[1]), prefix)

C20_TextThenPolarity ==
  PlainSingle =>
    LET txt == relatedText(CallNames[1], call.flags)
        sel == call.flags[CallNames[1]].selected = 1
    IN  ret[1] = IF txt # None THEN txt
                 ELSE IF NameStarts("yes") THEN Some(IF sel THEN "Yes" ELSE "No")
                 ELSE IF NameStarts("no") THEN Some(IF sel THEN "No" ELSE "Yes")
                 ELSE None

\* A linkname that starts with "no", without related text and not selected
C20_Witness ==
  /\ PlainSingle
  /\ NameStarts("no")
  /\ relatedText(CallNames[1], call.flags) = None
  /\ call.flags[CallNames[1]].selected = 0
  /\ ret[1] = Some("Yes")

(***************************************************************************)
(* C21. For a Yes/No prompt with several candidates of which at least one  *)
(* is selected, the Candidate Resolver returns "Yes" or "No" only: "Yes"   *)
(* when the first selected name contains "yes" in any letter case, else    *)
(* "No" when it contains "no", else "Yes".                                 *)
(***************************************************************************)
\* The candidate the scan chooses: the first one in list order with selected = 1
ChosenPositions == {i \in 1..Len(CallNames) : IsSelected(call.flags, CallNames[i])}

ChosenName == CallNames[SetMin(ChosenPositions)]

YesNoMulti ==
  /\ Returned("chooseValueForLinkcsv")
  /\ looksYesNoPrompt(call.promptText)
  /\ Len(CallNames) > 1
  /\ ChosenPositions # {}

C21_YesNoFromChosenName ==
  YesNoMulti =>
    /\ ret[1] \in {Some("Yes"), Some("No")}
    /\ ret[1] = IF Includes(ToLowerCase(ChosenName), "yes") THEN Some("Yes")
                ELSE IF Includes(ToLowerCase(ChosenName), "no") THEN Some("No")
                ELSE Some("Yes")

\* The chosen name contains "no" and not "yes", and a later candidate that
\* contains "yes" is selected too
C21_Witness ==
  /\ YesNoMulti
  /\ ChosenName = "unknownMatch"
  /\ \E i \in ChosenPositions : CallNames[i] = "MatchYES"
  /\ ret[1] = Some("No")

(***************************************************************************)
(* C22. For a prompt with several candidates that is not a Yes/No prompt,  *)
(* the Candidate Resolver returns the related text of the first selected   *)
(* candidate and misses when there is none (or when no candidate is        *)
(* selected); the value is never the linkname of a candidate.              *)
(***************************************************************************)
PlainMulti ==
  /\ Returned("chooseValueForLinkcsv")
  /\ ~looksYesNoPrompt(call.promptText)
  /\ Len(CallNames) > 1

C22_RelatedTextOfChosen ==
  PlainMulti =>
    /\ ret[1] = IF ChosenPositions = {} THEN None ELSE relatedText(ChosenName, call.flags)
    /\ \A i \in 1..Len(CallNames) : ret[1] # Some(CallNames[i])

\* Candidates OptionA, OptionB with OptionA not selected and OptionB selected
\* with the text "Custom Value"
C22_Witness ==
  /\ PlainMulti
  /\ call.promptText = "Describe the feature"
  /\ CallNames = <<"OptionA", "OptionB">>
  /\ HasFlag(call.flags, "OptionA") /\ call.flags["OptionA"].selected = 0
  /\ IsSelected(call.flags, "OptionB") /\ call.flags["OptionB"].text = "Custom Value"
  /\ ret[1] = Some("Custom Value")

(***************************************************************************)
(* C23. The Related-Text Resolver returns the first text that is not empty *)
(* among: the linkname's own; for a name that ends with "Main", that of    *)
(* the name without "Main"; those of the name followed by Age, Amt,        *)
(* Amount, Perc, Percent, Dollar, Dollars, in that order. When there is    *)
(* none it returns no text.                                                *)
(***************************************************************************)
RelatedOrder ==
  <<call.name>>
    \o (IF EndsWith(call.name, "Main") THEN <<Take(call.name, Len(call.name) - 4)>> ELSE <<>>)
    \o [i \in 1..7 |-> call.name \o
          <<"Age", "Amt", "Amount", "Perc", "Percent", "Dollar", "Dollars">>[i]]

RelatedHits == {i \in 1..Len(RelatedOrder) : HasText(call.flags, RelatedOrder[i])}

C23_RelatedTextPriority ==
  Returned("relatedText") =>
    ret[1] = IF RelatedHits = {} THEN None
             ELSE Some(call.flags[RelatedOrder[SetMin(RelatedHits)]].text)

\* A name that ends with "Main" and has a Flag without text; the name without
\* "Main" and two names with a suffix have different texts
C23_Witness ==
  /\ Returned("relatedText")
  /\ call.name = "MatchMain"
  /\ HasFlag(call.flags, "MatchMain") /\ ~HasText(call.flags, "MatchMain")
  /\ HasText(call.flags, "MatchMainAmt") /\ HasText(call.flags, "MatchMainDollars")
  /\ HasText(call.flags, "Match")
  /\ call.flags["Match"].text # call.flags["MatchMainAmt"].text
  /\ ret[1] = Some(call.flags["Match"].text)

(***************************************************************************)
(* C24. The Options Matcher takes its keywords from the selected           *)
(* candidates of the prompt, and from every selected linkname of the       *)
(* document only when no candidate is selected. So when the stages before  *)
(* it miss, the value is the option matched on the keywords of those       *)
(* names; when a candidate is selected and no option scores on the         *)
(* candidates' keywords the matcher misses, whatever else is selected in   *)
(* the document, and the value is the quick-text label or "N/A".           *)
(***************************************************************************)
\* The prompt's allowed options, as the Options Matcher looks them up
OptionsSeen(k) ==
  IF Lookup(optionsByPrompt, prompts[k].prompt) # ""
  THEN Lookup(optionsByPrompt, prompts[k].prompt)
  ELSE Lookup(optionsByPrompt, norm(prompts[k].prompt))

\* Document i is resolved by the enhanced orchestrator and the value of
\* prompt k is the one its row holds under the prompt's key
Resolved(i, k) ==
  /\ ~xmlFiles[i].raises /\ LastWithName(i)
  /\ LastWithKey(k) /\ Trim(prompts[k].key) # ""

ReachesMatcher(i, k) ==
  /\ enhanced /\ Resolved(i, k)
  /\ CandidateStage(prompts[k], FlagsOf(i)) = None
  /\ isVestingSchedulePrompt(prompts[k].prompt) =>
       VestingStage(prompts[k], FlagsOf(i), optionsByPrompt) = None

KeywordNames(i, k) ==
  IF SelectedCandidates(prompts[k], FlagsOf(i)) # <<>>
  THEN SelectedCandidates(prompts[k], FlagsOf(i))
  ELSE AllSelected(FlagsOf(i))

C24_KeywordsFromCandidates ==
  \A i \in 1..Stored : \A k \in 1..Len(prompts) :
    ReachesMatcher(i, k) =>
      LET match == bestMatchFromOptions(KeywordNames(i, k), OptionsSeen(k))
      IN  ValueOf(i, k) = IF match # None THEN match[1]
                          ELSE OrNA(QuickStageEnhanced(prompts[k], FlagsOf(i)))

\* A candidate is selected and no option scores on its keywords, while an
\* option scores on the keywords of another selected linkname of the document
C24_Witness ==
  \E i \in 1..Stored : \E k \in 1..Len(prompts) :
    /\ ReachesMatcher(i, k)
    /\ SelectedCandidates(prompts[k], FlagsOf(i)) # <<>>
    /\ bestMatchFromOptions(SelectedCandidates(prompts[k], FlagsOf(i)), OptionsSeen(k)) = None
    /\ bestMatchFromOptions(AllSelected(FlagsOf(i)), OptionsSeen(k)) # None
    /\ ValueOf(i, k) = "Feature"

(***************************************************************************)
(* C25. Allowed options are looked up by the exact prompt text: a prompt   *)
(* whose text is not a key of OptionsByPrompt is resolved as it is when no *)
(* options are configured at all.                                          *)
(***************************************************************************)
C25_ExactPromptLookup ==
  enhanced =>
    \A i \in 1..Stored : \A k \in 1..Len(prompts) :
      (Resolved(i, k) /\ prompts[k].prompt \notin DOMAIN optionsByPrompt) =>
        ValueOf(i, k) = ResolveEnhanced(prompts[k], FlagsOf(i), NoOptions)

(***************************************************************************)
(* C26. With no graded and no cliff linkname selected, the Vesting         *)
(* Schedule Resolver returns "Immediate" exactly when NAVestMatch or       *)
(* Vest100Match is selected and the quick text mentions "match", or        *)
(* 100VestingNEContr or Vest100NEContr is selected and the quick text      *)
(* mentions "non elective", "non-elective" or "profit", or one of          *)
(* VestNAQACA, VestNAQACAMatch, VestNAQACANE is selected; otherwise it     *)
(* returns no label.                                                       *)
(***************************************************************************)
Mentions(word) == Includes(ToLowerCase(call.quickText), word)

AnySelectedOf(names) == \E n \in names : IsSelected(call.flags, n)

GateMet ==
  \/ Mentions("match") /\ AnySelectedOf({"NAVestMatch", "Vest100Match"})
  \/ /\ Mentions("non elective") \/ Mentions("non-elective") \/ Mentions("profit")
     /\ AnySelectedOf({"100VestingNEContr", "Vest100NEContr"})
  \/ AnySelectedOf({"VestNAQACA", "VestNAQACAMatch", "VestNAQACANE"})

C26_ImmediateGates ==
  (Returned("deriveVestingShortLabel") /\ SelectedIn(gradedMap) = {} /\ SelectedIn(cliffMap) = {})
    => ret[1] = IF GateMet THEN Some("Immediate") ELSE None

\* Vest100Match is selected and the quick text mentions profit, not match
C26_Witness ==
  /\ Returned("deriveVestingShortLabel")
  /\ IsSelected(call.flags, "Vest100Match")
  /\ HasFlag(call.flags, "Vest100NEContr") /\ ~IsSelected(call.flags, "Vest100NEContr")
  /\ Mentions("profit") /\ ~Mentions("match")
  /\ ret[1] = None

(***************************************************************************)
(* C27. The vesting label expansion returns the first line of the allowed  *)
(* options, in list order, which, lower-cased and with its white space     *)
(* removed, starts with the short label so normalized or with its alias    *)
(* ("20/yr" for "1-20"); when no line does, or there are no allowed        *)
(* options, it returns the fixed canonical string of the short label.      *)
(***************************************************************************)
Normalized(str) == StripSpaces(ToLowerCase(Trim(str)))

ExpandLines == normalizeOptionsAllowed(call.optionsAllowed)

ExpandPrefixes ==
  {Normalized(call.shortLabel)} \cup (IF call.shortLabel = "1-20" THEN {"20/yr"} ELSE {})

ExpandHits ==
  {i \in 1..Len(ExpandLines) :
     \E c \in ExpandPrefixes : StartsWith(Normalized(ExpandLines[i]), c)}

CanonicalString ==
  CASE call.shortLabel = "1-25" -> "1-25 (0=0, 1=25, 2=50, 3=75, 4=100)"
    [] call.shortLabel = "1-20" -> "20/Yr (0=0, 1=20, 2=40, 3=60, 4=80, 5=100)"
    [] call.shortLabel = "2-20" -> "2-20 (0=0, 1=0, 2=20, 3=40, 4=60, 5=80, 6=100)"
    [] call.shortLabel = "Cliff 2" -> "Cliff 2 (0=0, 1=0, 2=100)"
    [] call.shortLabel = "Cliff 3" -> "Cliff 3 (0=0, 1=0, 2=0, 3=100)"
    [] call.shortLabel = "Immediate" -> "Immediate (100% immediate vesting)"

C27_FirstMatchingLine ==
  Returned("expandVestingLabel") =>
    ret[1] = IF ExpandHits = {} THEN Some(CanonicalString)
             ELSE Some(ExpandLines[SetMin(ExpandHits)])

\* The label "1-20" with the alias line before the line "1-20 (0=0,1=20,...)":
\* the alias line, the first that matches, is returned
C27_Witness ==
  /\ Returned("expandVestingLabel")
  /\ call.shortLabel = "1-20"
  /\ \E i, j \in ExpandHits :
       i < j /\ ExpandLines[i] = "20/Yr graded" /\ ExpandLines[j] = "1-20 (0=0,1=20,...)"
  /\ 1 \notin ExpandHits
  /\ ret[1] = Some("20/Yr graded")

(***************************************************************************)
(* C28. When every stage before it misses, the quick-text fallback gives   *)
(* the value only if a candidate of the prompt or any flag of the document *)
(* has selected = 1. The value is then the text after the last comma of    *)
(* the quick text, trimmed and without the double quotes around it; a      *)
(* quick text that is empty, has no comma or has nothing after its last    *)
(* comma gives no label, and the value is "N/A".                           *)
(***************************************************************************)
\* The text after the last comma, trimmed and unquoted; "" when there is none
QuickLabel(quick) ==
  LET commas == {c \in 1..Len(quick) : CharAt(quick, c) = ","}
      rest   == IF commas = {} THEN "" ELSE Trim(Drop(quick, SetMax(commas)))
      open   == IF Len(rest) > 0 /\ CharAt(rest, 1) = "\"" THEN Drop(rest, 1) ELSE rest
  IN  IF Len(open) > 0 /\ CharAt(open, Len(open)) = "\"" THEN Take(open, Len(open) - 1)
      ELSE open

EarlierStagesMiss(i, k) ==
  /\ Resolved(i, k)
  /\ CandidateStage(prompts[k], FlagsOf(i)) = None
  /\ enhanced =>
       /\ isVestingSchedulePrompt(prompts[k].prompt) =>
            VestingStage(prompts[k], FlagsOf(i), optionsByPrompt) = None
       /\ OptionsStage(prompts[k], FlagsOf(i), optionsByPrompt) = None

C28_QuickTextFallback ==
  \A i \in 1..Stored : \A k \in 1..Len(prompts) :
    EarlierStagesMiss(i, k) =>
      ValueOf(i, k) = IF ~NothingSelected(i) /\ QuickLabel(prompts[k].quick) # ""
                      THEN QuickLabel(prompts[k].quick)
                      ELSE "N/A"

\* No candidate of the prompt is selected, another flag of the document is,
\* and the label stands in double quotes after the last comma
C28_Witness ==
  \E i \in 1..Stored : \E k \in 1..Len(prompts) :
    /\ EarlierStagesMiss(i, k)
    /\ SelectedCandidates(prompts[k], FlagsOf(i)) = <<>>
    /\ ~NothingSelected(i)
    /\ prompts[k].quick = "Vesting, \"Immediate\""
    /\ ValueOf(i, k) = "Immediate"

(***************************************************************************)
(* C29. The keys that parseCsv, loadLocal and getBundledPrompts build for  *)
(* the prompts of one map are pairwise distinct, for any rows.             *)
(***************************************************************************)
C29_KeysDistinct ==
  (call.fn \in {"parseCsv", "loadLocal", "getBundledPrompts"} /\ ret # None) =>
    \A i, j \in 1..Len(ret[1]) : i # j => ret[1][i] # ret[1][j]

(***************************************************************************)
(* C30. In the App, once auto-load is off and a prompt map with at least   *)
(* one prompt has been uploaded, a run of the orchestrator is given the    *)
(* prompts of the most recent upload, and the options of the most recent   *)
(* options upload if there was one: a loadLocal request started earlier    *)
(* and completing later does not replace them.                             *)
(***************************************************************************)
C30_UploadedPromptsUsed ==
  (app.mounted /\ pc # "idle" /\ app.lastPrompts \notin {None, Some(<<>>)}) =>
    /\ prompts = app.lastPrompts[1]
    /\ app.lastOptions # None => optionsByPrompt = app.lastOptions[1]

====
